---- MODULE Spec2Model ----
(***************************************************************************)
(* Conversation state machines of the resume and career assistant:         *)
(*   - AgentWorkflow   (backend/agent_workflow.py), the engine behind      *)
(*                      POST /api/chat                                     *)
(*   - ResumeWorkflow  (backend/resume_workflow.py), the second engine     *)
(* Python strings are TLA+ strings; an Optional[T] attribute is <<>> for   *)
(* None and <<v>> for a value v, so that the string "None" typed by a user *)
(* is never confused with an unset attribute.                              *)
(***************************************************************************)
EXTENDS Integers, Sequences, FiniteSets, TLC

VARIABLES
    engine,        \* the engine the chat is routed to: "agent" or "resume"
    sessions,      \* agent_workflow.sessions : session id -> AgentStateData
    response,      \* what the last AgentWorkflow.process_message call returned
    pdfCalls,      \* session id -> number of ResumeGenerator.generate_pdf calls
    careerCalls,   \* session id -> number of get_career_suggestions calls
    rw_sessions,   \* resume_workflow.sessions : session id -> ResumeState
    rw_response,   \* what the last ResumeWorkflow.process_message call returned
    request,       \* the last chat request: message, session_id, intent
    turns,         \* number of process_message calls made so far
    arg,           \* the input of a helper applied on its own
    result,        \* what the helper returned for arg
    supabase_fails, \* every request of SupabaseService to the database fails
    rendered,      \* session id -> the resume_data last passed to generate_pdf
    matched,       \* session id -> the profile last passed to get_career_suggestions
    inflight       \* the chat requests being handled at once, and who holds the loop

vars == <<engine, sessions, response, pdfCalls, careerCalls,
          rw_sessions, rw_response, request, turns, arg, result, supabase_fails,
          rendered, matched, inflight, inflight>>

(***************************************************************************)
(* Bounds of the model.                                                    *)
(***************************************************************************)
\* chat turns of a run with plain answers (long enough to finish a resume
\* and come back after COMPLETE)
MaxTurns == 13
\* chat turns of a run in which blank and skip/none answers are given too
MaxAnswerTurns == 5
\* chat turns of a run that only tries intent requests
MaxIntentTurns == 2
\* comma-separated tokens of a skills answer
MaxSkillTokens == 4
\* chat turns of a run that answers the name, e-mail and link slots
MaxFieldTurns == 4
\* chat turns of a run in which stored sessions are looked up
MaxLookupTurns == 5
\* chat turns before two requests for the session arrive at once
MaxConcurrentTurns == 3
\* chat turns of a run through the career flow
MaxCareerFlowTurns == 6
\* chat turns of a run in which sessions are looked up and cleared
MaxLifecycleTurns == 4
\* chat turns of a run in which career guidance is requested directly
MaxGuidanceTurns == 5
\* chat turns of a run that completes a resume, goes on and fetches it
MaxRoundTripTurns == 12
\* chat turns of a run in which a collaborator may raise
MaxFailureTurns == 12
\* entries of the skills and of the interests list of a career profile
MaxCareerSkills == 2
MaxCareerInterests == 1

(***************************************************************************)
(* Python built-ins used by the engines.                                   *)
(***************************************************************************)
None == <<>>
Some(v) == <<v>>

UpperAlpha == "ABCDEFGHIJKLMNOPQRSTUVWXYZ"
LowerAlpha == "abcdefghijklmnopqrstuvwxyz"

\* upper-case letter -> lower-case letter
LowerMap ==
    [c \in {SubSeq(UpperAlpha, i, i) : i \in 1..26} |->
        LET i == CHOOSE j \in 1..26 : SubSeq(UpperAlpha, j, j) = c
        IN  SubSeq(LowerAlpha, i, i)]

\* one character of str.lower()
LowerChar(c) == IF c \in DOMAIN LowerMap THEN LowerMap[c] ELSE c

RECURSIVE Lower(_)
\* str.lower()
Lower(s) ==
    IF s = "" THEN ""
    ELSE LowerChar(SubSeq(s, 1, 1)) \o Lower(SubSeq(s, 2, Len(s)))

IsSpace(c) == c \in {" ", "\t", "\n", "\r"}

RECURSIVE LStrip(_)
LStrip(s) ==
    IF s # "" /\ IsSpace(SubSeq(s, 1, 1)) THEN LStrip(SubSeq(s, 2, Len(s))) ELSE s

RECURSIVE RStrip(_)
RStrip(s) ==
    IF s # "" /\ IsSpace(SubSeq(s, Len(s), Len(s)))
    THEN RStrip(SubSeq(s, 1, Len(s) - 1)) ELSE s

\* str.strip()
Strip(s) == RStrip(LStrip(s))

\* k in s
Contains(k, s) ==
    \E i \in 1..(Len(s) - Len(k) + 1) : SubSeq(s, i, i + Len(k) - 1) = k

\* s.startswith(p)
StartsWith(s, p) == Len(p) <= Len(s) /\ SubSeq(s, 1, Len(p)) = p

RECURSIVE Split(_, _)
\* s.split(sep) for a one-character separator: "".split(",") = [""]
Split(s, sep) ==
    IF \E i \in 1..Len(s) : SubSeq(s, i, i) = sep
    THEN LET i == CHOOSE j \in 1..Len(s) :
                     /\ SubSeq(s, j, j) = sep
                     /\ \A k \in 1..(j - 1) : SubSeq(s, k, k) # sep
         IN  <<SubSeq(s, 1, i - 1)>> \o Split(SubSeq(s, i + 1, Len(s)), sep)
    ELSE <<s>>

RECURSIVE Replace(_, _, _)
\* s.replace(old, new) for a non-empty old
Replace(s, old, new) ==
    IF Len(s) < Len(old) THEN s
    ELSE IF SubSeq(s, 1, Len(old)) = old
         THEN new \o Replace(SubSeq(s, Len(old) + 1, Len(s)), old, new)
         ELSE SubSeq(s, 1, 1) \o Replace(SubSeq(s, 2, Len(s)), old, new)

\* d.get(key, default) for a dict of Optional values
Get(d, key, default) == IF key \in DOMAIN d THEN d[key] ELSE Some(default)

\* any(k in s for k in keywords)
AnyIn(keywords, s) == \E i \in 1..Len(keywords) : Contains(keywords[i], s)

\* [f(x) for x in xs]
StripAll(xs) == [i \in 1..Len(xs) |-> Strip(xs[i])]

\* Python truthiness of an Optional[str] / Optional[list] / Optional[dict]
Truthy(opt) == opt # None /\ opt[1] # ""
TruthyList(opt) == opt # None /\ opt[1] # <<>>
TruthyDict(opt) == opt # None

\* a or b, for an Optional list / Optional str a
OrList(a, b) == IF TruthyList(a) THEN a[1] ELSE b
OrStr(a, b) == IF Truthy(a) THEN a[1] ELSE b

(***************************************************************************)
(* AgentWorkflow: enums and session record.                                *)
(***************************************************************************)
START             == "start"
INTENT            == "intent"
RESUME_COLLECTION == "resume_collection"
CAREER_COLLECTION == "career_collection"
RESUME_OUTPUT     == "resume_output"
CAREER_OUTPUT     == "career_output"
COMPLETE          == "complete"

AgentState == {START, INTENT, RESUME_COLLECTION, CAREER_COLLECTION,
               RESUME_OUTPUT, CAREER_OUTPUT, COMPLETE}

RESUME == "resume"
CAREER == "career"
UNKNOWN == "unknown"

RESUME_FIELDS == <<"name", "email", "linkedin", "summary", "education",
                   "skills", "experience", "projects", "achievements">>

CAREER_FIELDS == <<"skills", "interests", "education">>

\* AgentStateData(session_id = sid)
AgentStateData(sid) ==
    [ session_id       |-> sid,
      current_state    |-> START,
      intent           |-> None,
      name             |-> None,
      email            |-> None,
      linkedin         |-> None,
      portfolio        |-> None,
      summary          |-> None,
      education        |-> None,
      skills           |-> None,
      experience       |-> None,
      projects         |-> None,
      achievements     |-> None,
      certifications   |-> None,
      career_skills    |-> None,
      career_interests |-> None,
      career_education |-> None,
      messages         |-> <<>>,
      current_field    |-> None,
      resume_complete  |-> FALSE,
      career_complete  |-> FALSE ]

Msg(role, content) == [role |-> role, content |-> content]

\* the dict a node returns; keys a node leaves out read as None (dict.get)
Reply(message, state, intent, rc, cc, field, pdf) ==
    [ raised          |-> FALSE,
      message         |-> message,
      state           |-> state,
      intent          |-> intent,
      resume_complete |-> rc,
      career_complete |-> cc,
      current_field   |-> field,
      pdf_file        |-> pdf ]

\* the call ended in an exception instead of a dict
Raised ==
    [ raised          |-> TRUE,
      message         |-> "",
      state           |-> "",
      intent          |-> None,
      resume_complete |-> FALSE,
      career_complete |-> FALSE,
      current_field   |-> None,
      pdf_file        |-> None ]

\* what a node hands back: the session, the reply, and the collaborator
\* calls it made (pdf, career: 0 or 1)
Result(st, r, pdf, career) == [st |-> st, reply |-> r, pdf |-> pdf, career |-> career]

(***************************************************************************)
(* AgentWorkflow helpers.                                                  *)
(***************************************************************************)
\* the scan stopping before the achievements slot
get_next_resume_field_short(st) ==
    IF ~Truthy(st.name) THEN Some("name")
    ELSE IF ~Truthy(st.email) THEN Some("email")
    ELSE IF ~Truthy(st.linkedin) /\ ~Truthy(st.portfolio) THEN Some("linkedin")
    ELSE IF ~Truthy(st.summary) THEN Some("summary")
    ELSE IF ~TruthyList(st.education) THEN Some("education")
    ELSE IF ~TruthyDict(st.skills) THEN Some("skills")
    ELSE IF ~TruthyList(st.experience) THEN Some("experience")
    ELSE IF ~TruthyList(st.projects) THEN Some("projects")
    ELSE None

get_next_resume_field(st) ==
    IF ~Truthy(st.name) THEN Some("name")
    ELSE IF ~Truthy(st.email) THEN Some("email")
    ELSE IF ~Truthy(st.linkedin) /\ ~Truthy(st.portfolio) THEN Some("linkedin")
    ELSE IF ~Truthy(st.summary) THEN Some("summary")
    ELSE IF ~TruthyList(st.education) THEN Some("education")
    ELSE IF ~TruthyDict(st.skills) THEN Some("skills")
    ELSE IF ~TruthyList(st.experience) THEN Some("experience")
    ELSE IF ~TruthyList(st.projects) THEN Some("projects")
    ELSE IF ~TruthyList(st.achievements) /\ ~TruthyList(st.certifications)
         THEN Some("achievements")
    ELSE None

get_next_career_field_interests_first(st) ==
    IF ~TruthyList(st.career_interests) THEN Some("interests")
    ELSE IF ~TruthyList(st.career_skills) THEN Some("skills")
    ELSE IF ~Truthy(st.career_education) THEN Some("education")
    ELSE None

get_next_career_field(st) ==
    IF ~TruthyList(st.career_skills) THEN Some("skills")
    ELSE IF ~TruthyList(st.career_interests) THEN Some("interests")
    ELSE IF ~Truthy(st.career_education) THEN Some("education")
    ELSE None

\* the prompt texts, shortened to their question
get_resume_prompt(field) ==
    CASE field = "name"         -> "What is your full name?"
      [] field = "email"        -> "What is your email address?"
      [] field = "linkedin"     -> "Do you have a LinkedIn profile or portfolio website?"
      [] field = "summary"      -> "Please provide a 2-3 line career summary or objective."
      [] field = "education"    -> "Please provide your education details:"
      [] field = "skills"       -> "Please provide your skills separated by commas."
      [] field = "experience"   -> "Please provide your experience details: Type 'none' if you don't have any experience yet."
      [] field = "projects"     -> "Please provide your project details: Type 'none' if you don't have any projects to mention."
      [] field = "achievements" -> "Finally, let's add your achievements and certifications. Type 'none' if you don't have any."
      [] OTHER                  -> "Please provide the required info."

get_career_prompt(field) ==
    CASE field = "skills"    -> "What are your key skills?"
      [] field = "interests" -> "What are your interests?"
      [] field = "education" -> "Your educational background?"
      [] OTHER               -> "Please provide the required info."

\* a link answer kept as the portfolio
store_resume_field_portfolio(st, field, value) ==
    CASE field = "name"         -> [st EXCEPT !.name = Some(Strip(value))]
      [] field = "email"        -> [st EXCEPT !.email = Some(Strip(value))]
      [] field = "linkedin"     -> [st EXCEPT !.portfolio = Some(Strip(value))]
      [] field = "summary"      -> [st EXCEPT !.summary = Some(Strip(value))]
      [] field = "education"    -> [st EXCEPT !.education =
                                       Some(<<[details |-> Strip(value)]>>)]
      [] field = "skills"       -> [st EXCEPT !.skills =
                                       Some([technical |-> Split(Strip(value), ","),
                                             soft |-> <<>>])]
      [] field = "experience"   -> [st EXCEPT !.experience =
                                       Some(<<[details |-> Strip(value)]>>)]
      [] field = "projects"     -> [st EXCEPT !.projects =
                                       Some(<<[details |-> Strip(value)]>>)]
      [] field = "achievements" -> [st EXCEPT !.achievements = Some(<<Strip(value)>>)]
      [] OTHER                  -> st

store_resume_field(st, field, value) ==
    LET val == Strip(value) IN
    CASE field = "name"         -> [st EXCEPT !.name = Some(val)]
      [] field = "email"        -> [st EXCEPT !.email = Some(val)]
      [] field = "linkedin"     -> [st EXCEPT !.linkedin = Some(val)]
      [] field = "summary"      -> [st EXCEPT !.summary = Some(val)]
      [] field = "education"    -> [st EXCEPT !.education = Some(<<[details |-> val]>>)]
      [] field = "skills"       -> [st EXCEPT !.skills =
                                       Some([technical |-> Split(val, ","), soft |-> <<>>])]
      [] field = "experience"   -> [st EXCEPT !.experience = Some(<<[details |-> val]>>)]
      [] field = "projects"     -> [st EXCEPT !.projects = Some(<<[details |-> val]>>)]
      [] field = "achievements" -> [st EXCEPT !.achievements = Some(<<val>>)]
      [] OTHER                  -> st

\* the career answers written to the resume attributes of the same name
store_career_field_shared(st, field, value) ==
    CASE field = "skills"    -> [st EXCEPT !.skills =
                                    Some([technical |-> Split(Strip(value), ","),
                                          soft |-> <<>>])]
      [] field = "interests" -> [st EXCEPT !.career_interests =
                                    Some(StripAll(Split(Strip(value), ",")))]
      [] field = "education" -> [st EXCEPT !.education =
                                    Some(<<[details |-> Strip(value)]>>)]
      [] OTHER               -> st

store_career_field(st, field, value) ==
    LET val == Strip(value) IN
    CASE field = "skills"    -> [st EXCEPT !.career_skills = Some(StripAll(Split(val, ",")))]
      [] field = "interests" -> [st EXCEPT !.career_interests = Some(StripAll(Split(val, ",")))]
      [] field = "education" -> [st EXCEPT !.career_education = Some(val)]
      [] OTHER               -> st

RESUME_KEYWORDS == <<"resume", "cv", "create resume", "build resume", "make resume">>
CAREER_KEYWORDS == <<"career", "guidance", "advice", "path", "what should", "recommendation">>

\* a classification that looks for the career keywords first
classify_intent_career_first(message) ==
    LET message_lower == Strip(Lower(message)) IN
    IF AnyIn(CAREER_KEYWORDS, message_lower) THEN CAREER
    ELSE IF AnyIn(RESUME_KEYWORDS, message_lower) THEN RESUME
    ELSE UNKNOWN

\* the intent intent_node derives from a message
classify_intent(message) ==
    LET message_lower == Strip(Lower(message)) IN
    IF AnyIn(RESUME_KEYWORDS, message_lower) THEN RESUME
    ELSE IF AnyIn(CAREER_KEYWORDS, message_lower) THEN CAREER
    ELSE UNKNOWN

GREETING == "Hello! What would you like help with today? Please say 'Resume' or 'Career Guidance'."
CLARIFY  == "I'd like to help you! Could you please clarify: What would you like to do?"
RESUME_DONE(pdf_file) ==
    "Perfect! I have all the information I need. Your professional resume has been generated: "
        \o pdf_file
CAREER_DONE == "Personalized Career Guidance"

\* the arguments of a get_career_suggestions call
Profile(skills, interests, education) ==
    [skills |-> skills, interests |-> interests, education |-> education]

\* output_node, lines 221-223: the arguments built from the session
career_profile(st) ==
    Profile(OrList(st.career_skills, <<>>),
            OrList(st.career_interests, <<>>),
            OrStr(st.career_education, ""))

PdfFile(sid) == "generated_resumes/" \o sid \o "_resume.pdf"

\* the resume_data dict output_node builds for the renderer; output_node
\* changes none of these attributes afterwards
resume_data(st) ==
    [ name           |-> st.name,
      email          |-> st.email,
      linkedin       |-> st.linkedin,
      portfolio      |-> st.portfolio,
      summary        |-> st.summary,
      education      |-> st.education,
      skills         |-> st.skills,
      experience     |-> st.experience,
      projects       |-> st.projects,
      achievements   |-> st.achievements,
      certifications |-> st.certifications ]

(***************************************************************************)
(* AgentWorkflow nodes.  ok = the collaborator the node reaches returns    *)
(* normally; otherwise its exception leaves the node where it was raised.  *)
(***************************************************************************)
\* an output_node that stores the result in the database before it answers,
\* and lets a failure of the database escape
output_node_persisting(st, message, ok) ==
    IF supabase_fails /\ st.current_state \in {RESUME_OUTPUT, CAREER_OUTPUT}
    THEN Result(st, Raised, 0, 0)
    ELSE IF st.current_state = RESUME_OUTPUT THEN
             IF ~ok THEN Result(st, Raised, 0, 0)
             ELSE LET pdf_file == PdfFile(st.session_id)
                      response_msg == RESUME_DONE(pdf_file)
                  IN  Result([st EXCEPT !.resume_complete = TRUE,
                                        !.current_state = COMPLETE,
                                        !.messages = Append(@, Msg("assistant", response_msg))],
                             Reply(response_msg, "complete", Some("resume"), TRUE, FALSE,
                                   None, Some(pdf_file)),
                             1, 0)
         ELSE IF st.current_state = CAREER_OUTPUT THEN
             IF ~ok THEN Result(st, Raised, 0, 1)
             ELSE LET response_msg == CAREER_DONE
                  IN  Result([st EXCEPT !.career_complete = TRUE,
                                        !.current_state = COMPLETE,
                                        !.messages = Append(@, Msg("assistant", response_msg))],
                             Reply(response_msg, "complete", Some("career"), FALSE, TRUE,
                                   None, None),
                             0, 1)
         ELSE Result(st, Reply("Processing...", "processing", None, FALSE, FALSE, None, None),
                     0, 0)

output_node(st, message, ok) ==
    IF st.current_state = RESUME_OUTPUT THEN
        IF ~ok THEN Result(st, Raised, 0, 0)
        ELSE LET pdf_file == PdfFile(st.session_id)
                 response_msg == RESUME_DONE(pdf_file)
             IN  Result([st EXCEPT !.resume_complete = TRUE,
                                   !.current_state = COMPLETE,
                                   !.messages = Append(@, Msg("assistant", response_msg))],
                        Reply(response_msg, "complete", Some("resume"), TRUE, FALSE,
                              None, Some(pdf_file)),
                        1, 0)
    ELSE IF st.current_state = CAREER_OUTPUT THEN
        IF ~ok THEN Result(st, Raised, 0, 1)
        ELSE LET response_msg == CAREER_DONE
             IN  Result([st EXCEPT !.career_complete = TRUE,
                                   !.current_state = COMPLETE,
                                   !.messages = Append(@, Msg("assistant", response_msg))],
                        Reply(response_msg, "complete", Some("career"), FALSE, TRUE,
                              None, None),
                        0, 1)
    ELSE Result(st, Reply("Processing...", "processing", None, FALSE, FALSE, None, None),
                0, 0)

\* a resume_node that leaves the output to the next call
resume_node_deferred(st, message, ok) ==
    LET st1 == IF st.current_field # None
               THEN [store_resume_field(st, st.current_field[1], message)
                        EXCEPT !.current_field = None]
               ELSE st
        next_field == get_next_resume_field(st1)
    IN  IF next_field = None
        THEN Result([st1 EXCEPT !.current_state = RESUME_OUTPUT],
                    Reply("Processing...", "processing", None, FALSE, FALSE, None, None),
                    0, 0)
        ELSE LET prompt == get_resume_prompt(next_field[1])
             IN  Result([st1 EXCEPT !.current_field = next_field,
                                    !.messages = Append(@, Msg("assistant", prompt))],
                        Reply(prompt, "resume_collection", Some("resume"), FALSE, FALSE,
                              next_field, None),
                        0, 0)

resume_node(st, message, ok) ==
    LET st1 == IF st.current_field # None
               THEN [store_resume_field(st, st.current_field[1], message)
                        EXCEPT !.current_field = None]
               ELSE st
        next_field == get_next_resume_field(st1)
    IN  IF next_field = None
        THEN output_node([st1 EXCEPT !.current_state = RESUME_OUTPUT], "", ok)
        ELSE LET prompt == get_resume_prompt(next_field[1])
             IN  Result([st1 EXCEPT !.current_field = next_field,
                                    !.messages = Append(@, Msg("assistant", prompt))],
                        Reply(prompt, "resume_collection", Some("resume"), FALSE, FALSE,
                              next_field, None),
                        0, 0)

career_node(st, message, ok) ==
    LET st1 == IF st.current_field # None
               THEN [store_career_field(st, st.current_field[1], message)
                        EXCEPT !.current_field = None]
               ELSE st
        next_field == get_next_career_field(st1)
    IN  IF next_field = None
        THEN output_node([st1 EXCEPT !.current_state = CAREER_OUTPUT], "", ok)
        ELSE LET prompt == get_career_prompt(next_field[1])
             IN  Result([st1 EXCEPT !.current_field = next_field,
                                    !.messages = Append(@, Msg("assistant", prompt))],
                        Reply(prompt, "career_collection", Some("career"), FALSE, FALSE,
                              next_field, None),
                        0, 0)

intent_node(st, message, ok) ==
    LET intent == classify_intent(message) IN
    IF intent = UNKNOWN
    THEN Result([st EXCEPT !.messages = @ \o <<Msg("user", message),
                                               Msg("assistant", CLARIFY)>>],
                Reply(CLARIFY, "intent", None, FALSE, FALSE, None, None), 0, 0)
    ELSE LET st1 == [st EXCEPT !.intent = Some(intent),
                               !.current_state = IF intent = RESUME
                                                 THEN RESUME_COLLECTION
                                                 ELSE CAREER_COLLECTION,
                               !.messages = Append(@, Msg("user", message))]
         IN  IF intent = RESUME THEN resume_node(st1, message, ok)
                                ELSE career_node(st1, message, ok)

start_node(st, message, ok) ==
    IF st.current_state = START
    THEN Result([st EXCEPT !.messages = @ \o <<Msg("user", message),
                                               Msg("assistant", GREETING)>>,
                           !.current_state = INTENT],
                Reply(GREETING, "intent", None, FALSE, FALSE, None, None), 0, 0)
    ELSE intent_node(st, message, ok)

\* a process_message that opens a new session in the flow named by the hint
process_message_hinted(st, message, intent, ok) ==
    IF st.current_state = START /\ intent = Some("resume")
    THEN resume_node([st EXCEPT !.intent = Some(RESUME),
                                !.current_state = RESUME_COLLECTION,
                                !.messages = Append(@, Msg("user", message))],
                     message, ok)
    ELSE IF st.current_state = START THEN start_node(st, message, ok)
    ELSE IF st.current_state = INTENT THEN intent_node(st, message, ok)
    ELSE IF st.current_state = RESUME_COLLECTION THEN resume_node(st, message, ok)
    ELSE IF st.current_state = CAREER_COLLECTION THEN career_node(st, message, ok)
    ELSE IF st.current_state \in {RESUME_OUTPUT, CAREER_OUTPUT}
         THEN output_node(st, message, ok)
    ELSE start_node([st EXCEPT !.current_state = START], message, ok)

\* a process_message that serves a finished session from a new record
process_message_new_record(st, message, intent, ok) ==
    IF st.current_state = START THEN start_node(st, message, ok)
    ELSE IF st.current_state = INTENT THEN intent_node(st, message, ok)
    ELSE IF st.current_state = RESUME_COLLECTION THEN resume_node(st, message, ok)
    ELSE IF st.current_state = CAREER_COLLECTION THEN career_node(st, message, ok)
    ELSE IF st.current_state \in {RESUME_OUTPUT, CAREER_OUTPUT}
         THEN output_node(st, message, ok)
    ELSE start_node([AgentStateData(st.session_id)
                        EXCEPT !.resume_complete = st.resume_complete,
                               !.career_complete = st.career_complete],
                    message, ok)

\* AgentWorkflow.process_message on the session record st; intent is the
\* optional intent hint of the chat request
process_message(st, message, intent, ok) ==
    IF st.current_state = START THEN start_node(st, message, ok)
    ELSE IF st.current_state = INTENT THEN intent_node(st, message, ok)
    ELSE IF st.current_state = RESUME_COLLECTION THEN resume_node(st, message, ok)
    ELSE IF st.current_state = CAREER_COLLECTION THEN career_node(st, message, ok)
    ELSE IF st.current_state \in {RESUME_OUTPUT, CAREER_OUTPUT}
         THEN output_node(st, message, ok)
    ELSE start_node([st EXCEPT !.current_state = START], message, ok)

\* _get_session: the stored session, or a new one
get_session(sid) ==
    IF sid \in DOMAIN sessions THEN sessions[sid] ELSE AgentStateData(sid)

(***************************************************************************)
(* ResumeWorkflow (backend/resume_workflow.py).                            *)
(***************************************************************************)
\* ResumeState(session_id = sid, messages = [], intent = intent)
ResumeState(sid, intent) ==
    [ session_id      |-> sid,
      messages        |-> <<>>,
      name            |-> None,
      email           |-> None,
      linkedin        |-> None,
      portfolio       |-> None,
      summary         |-> None,
      education       |-> None,
      skills          |-> None,
      experience      |-> None,
      projects        |-> None,
      achievements    |-> None,
      certifications  |-> None,
      current_field   |-> None,
      intent          |-> intent,
      resume_complete |-> FALSE ]

DETECT_KEYWORDS == <<"career", "path", "guidance", "advice", "what should">>

detect_intent(message) ==
    IF AnyIn(DETECT_KEYWORDS, Lower(message)) THEN "career_guidance" ELSE "resume"

\* a field order that keeps asking for the education until the experience
\* is given
get_next_field_repeat_education(st) ==
    IF ~Truthy(st.name) THEN Some("name")
    ELSE IF ~Truthy(st.email) THEN Some("email")
    ELSE IF ~Truthy(st.linkedin) /\ ~Truthy(st.portfolio) THEN Some("linkedin")
    ELSE IF ~Truthy(st.summary) THEN Some("summary")
    ELSE IF ~TruthyList(st.education) THEN Some("education")
    ELSE IF ~TruthyDict(st.skills) THEN Some("education")
    ELSE IF ~TruthyList(st.experience) THEN Some("experience")
    ELSE IF ~TruthyList(st.projects) THEN Some("projects")
    ELSE IF ~TruthyList(st.achievements) /\ ~TruthyList(st.certifications)
         THEN Some("achievements")
    ELSE None

\* a field order that asks for the email before the name
get_next_field_email_first(st) ==
    IF ~Truthy(st.email) THEN Some("email")
    ELSE IF ~Truthy(st.name) THEN Some("name")
    ELSE IF ~Truthy(st.linkedin) /\ ~Truthy(st.portfolio) THEN Some("linkedin")
    ELSE IF ~Truthy(st.summary) THEN Some("summary")
    ELSE IF ~TruthyList(st.education) THEN Some("education")
    ELSE IF ~TruthyDict(st.skills) THEN Some("skills")
    ELSE IF ~TruthyList(st.experience) THEN Some("experience")
    ELSE IF ~TruthyList(st.projects) THEN Some("projects")
    ELSE IF ~TruthyList(st.achievements) /\ ~TruthyList(st.certifications)
         THEN Some("achievements")
    ELSE None

get_next_field(st) ==
    IF ~Truthy(st.name) THEN Some("name")
    ELSE IF ~Truthy(st.email) THEN Some("email")
    ELSE IF ~Truthy(st.linkedin) /\ ~Truthy(st.portfolio) THEN Some("linkedin")
    ELSE IF ~Truthy(st.summary) THEN Some("summary")
    ELSE IF ~TruthyList(st.education) THEN Some("education")
    ELSE IF ~TruthyDict(st.skills) THEN Some("skills")
    ELSE IF ~TruthyList(st.experience) THEN Some("experience")
    ELSE IF ~TruthyList(st.projects) THEN Some("projects")
    ELSE IF ~TruthyList(st.achievements) /\ ~TruthyList(st.certifications)
         THEN Some("achievements")
    ELSE None

\* the prompt texts, shortened to their question
get_prompt_for_field(field) ==
    CASE field = "name"         -> "What is your full name?"
      [] field = "email"        -> "What is your email address?"
      [] field = "linkedin"     -> "Please share the link (or type 'skip' if you don't have one)."
      [] field = "summary"      -> "Please provide a 2-3 line career summary or objective."
      [] field = "education"    -> "Please provide your education details:"
      [] field = "skills"       -> "Please provide your skills separated by commas."
      [] field = "experience"   -> "Please provide your experience details: Type 'none' if you don't have any experience yet."
      [] field = "projects"     -> "Please provide your project details: Type 'none' if you don't have any projects to mention."
      [] field = "achievements" -> "Finally, let's add your achievements and certifications. Type 'none' if you don't have any."
      [] OTHER                  -> "Please provide the required information."

\* lines 84-101, on message_clean = message.strip() and its lower-case form
extract_clean(message_clean, message_lower, field) ==
    IF message_lower = "skip" \/ message_lower = "none" THEN None
    ELSE IF field = "email" /\ Contains("@", message_clean)
         THEN Some(Lower(message_clean))
    ELSE IF field = "linkedin"
            /\ (\/ Contains("http", message_lower)
                \/ Contains("linkedin.com", message_lower)
                \/ Contains("github.com", message_lower)
                \/ Contains("portfolio", message_lower))
         THEN IF ~StartsWith(message_clean, "http")
              THEN Some("https://" \o message_clean)
              ELSE Some(message_clean)
    ELSE IF message_clean # "" /\ message_lower # "none"
         THEN Some(message_clean)
    ELSE None

extract_field_value(message, field) ==
    extract_clean(Strip(message), Lower(Strip(message)), field)

SOFT_KEYWORDS == <<"communication", "teamwork", "leadership", "problem solving",
                   "time management", "adaptability", "collaboration">>
CERT_KEYWORDS == <<"certificate", "certification", "certified", "course">>

\* a soft-skill test that compares without lower-casing
IsSoft_case_sensitive(skill) == AnyIn(SOFT_KEYWORDS, skill)

IsSoft(skill) == AnyIn(SOFT_KEYWORDS, Lower(skill))
IsCert(item) == AnyIn(CERT_KEYWORDS, Lower(item))
NonEmpty(item) == item # ""

\* the skills branch of process_message: the dict stored for an answer
classify_skills(message) ==
    LET skills_list == StripAll(Split(message, ",")) IN
    [ technical |-> StripAll(SelectSeq(skills_list, LAMBDA x : ~IsSoft(x))),
      soft      |-> StripAll(SelectSeq(skills_list, IsSoft)) ]

\* the achievements branch of process_message
classify_achievements(st, message) ==
    LET items == SelectSeq(StripAll(Split(message, ",")), NonEmpty) IN
    [st EXCEPT !.achievements   = Some(SelectSeq(items, LAMBDA x : ~IsCert(x))),
               !.certifications = Some(SelectSeq(items, IsCert))]

Details(old, message) ==
    IF ~TruthyList(old) THEN Some(<<[details |-> message]>>)
    ELSE Some(old[1] \o <<[details |-> message]>>)

\* lines 134-189: the branch of the awaited field, given the extracted value
\* and lower = message.lower()
store_value(st, field, value, message, lower) ==
    CASE field = "name"    -> [st EXCEPT !.name = value]
      [] field = "email"   -> [st EXCEPT !.email = value]
      [] field = "linkedin" ->
           IF value = None THEN st
           ELSE IF Contains("linkedin", lower) THEN [st EXCEPT !.linkedin = value]
           ELSE IF \/ Contains("github", lower)
                   \/ Contains("portfolio", lower)
                   \/ Contains("http", lower)
                THEN [st EXCEPT !.portfolio = value]
           ELSE st
      [] field = "summary" -> [st EXCEPT !.summary = value]
      [] field = "education" ->
           IF value = None THEN st
           ELSE [st EXCEPT !.education = Details(st.education, message)]
      [] field = "skills" ->
           IF value = None THEN st
           ELSE [st EXCEPT !.skills = Some(classify_skills(message))]
      [] field = "experience" ->
           IF value = None THEN st
           ELSE [st EXCEPT !.experience = Details(st.experience, message)]
      [] field = "projects" ->
           IF value = None THEN st
           ELSE [st EXCEPT !.projects = Details(st.projects, message)]
      [] field = "achievements" ->
           IF value = None THEN st ELSE classify_achievements(st, message)
      [] OTHER -> st

\* no branch touches state.current_field
clear_field_kept(st, field) == st

\* every branch ends with state.current_field = None
clear_field(st, field) ==
    IF field \in {"name", "email", "linkedin", "summary", "education", "skills",
                  "experience", "projects", "achievements"}
    THEN [st EXCEPT !.current_field = None]
    ELSE st

\* lines 131-189: store the answer to the awaited field and clear the marker
store_answer(st, field, message) ==
    clear_field(store_value(st, field, extract_field_value(message, field),
                            message, Lower(message)),
                field)

\* a missing-fields list that leaves the achievements slot out
missing_fields_without_achievements(st) ==
    (IF ~Truthy(st.name) THEN <<"name">> ELSE <<>>)
    \o (IF ~Truthy(st.email) THEN <<"email">> ELSE <<>>)
    \o (IF ~Truthy(st.summary) THEN <<"summary">> ELSE <<>>)
    \o (IF ~TruthyList(st.education) THEN <<"education">> ELSE <<>>)
    \o (IF ~TruthyDict(st.skills) THEN <<"skills">> ELSE <<>>)
    \o (IF ~TruthyList(st.experience) THEN <<"experience">> ELSE <<>>)
    \o (IF ~TruthyList(st.projects) THEN <<"projects">> ELSE <<>>)

\* lines 205-221
missing_fields(st) ==
    (IF ~Truthy(st.name) THEN <<"name">> ELSE <<>>)
    \o (IF ~Truthy(st.email) THEN <<"email">> ELSE <<>>)
    \o (IF ~Truthy(st.summary) THEN <<"summary">> ELSE <<>>)
    \o (IF ~TruthyList(st.education) THEN <<"education">> ELSE <<>>)
    \o (IF ~TruthyDict(st.skills) THEN <<"skills">> ELSE <<>>)
    \o (IF ~TruthyList(st.experience) THEN <<"experience">> ELSE <<>>)
    \o (IF ~TruthyList(st.projects) THEN <<"projects">> ELSE <<>>)
    \o (IF ~TruthyList(st.achievements) /\ ~TruthyList(st.certifications)
        THEN <<"achievements">> ELSE <<>>)

RWReply(message, intent, rc, missing, state) ==
    [ message         |-> message,
      intent          |-> intent,
      resume_complete |-> rc,
      missing_fields  |-> missing,
      state           |-> state ]

USE_CAREER == "I see you're looking for career guidance. Please use the career guidance feature."
RW_DONE    == "Perfect! I have all the information I need. Your resume is ready!"

\* lines 202-229: append the reply to the transcript and build the response
rw_respond(st, response_msg) ==
    [st    |-> [st EXCEPT !.messages = Append(@, Msg("assistant", response_msg))],
     reply |-> RWReply(response_msg, st.intent, st.resume_complete,
                       missing_fields(st), st.current_field)]

\* lines 191-200: completion, or the prompt for the next field
rw_advance(st, next_field) ==
    IF next_field = None
    THEN rw_respond([st EXCEPT !.resume_complete = TRUE], RW_DONE)
    ELSE rw_respond([st EXCEPT !.current_field = next_field],
                    get_prompt_for_field(next_field[1]))

\* lines 191-192: look for the next field to collect
rw_next(st) == rw_advance(st, get_next_field(st))

\* lines 131-192
rw_collect(st, message) ==
    IF st.current_field # None
    THEN rw_next(store_answer(st, st.current_field[1], message))
    ELSE rw_next(st)

\* lines 118-128: a career-guidance session is sent to the other feature
rw_dispatch(st, message) ==
    IF st.intent = Some("career_guidance")
    THEN [st    |-> [st EXCEPT !.messages = Append(@, Msg("assistant", USE_CAREER))],
          reply |-> RWReply(USE_CAREER, st.intent, FALSE, <<>>, None)]
    ELSE rw_collect(st, message)

\* ResumeWorkflow.process_message on the (stored or just created) record st
rw_process_message(st, message) ==
    rw_dispatch([st EXCEPT !.messages = Append(@, Msg("user", message))], message)

(***************************************************************************)
(* CareerGuidanceService (backend/career_guidance.py).                     *)
(***************************************************************************)
CareerPath(path_id, title, required_skills, entry_level) ==
    [ path_id |-> path_id, title |-> title,
      required_skills |-> required_skills, entry_level |-> entry_level ]

\* the catalog in its iteration order
CAREER_PATHS ==
    << CareerPath("software_development", "Software Development",
                  <<"programming", "problem solving", "data structures", "algorithms">>,
                  <<"Junior Developer", "Associate Software Engineer",
                    "Software Developer Trainee">>),
       CareerPath("data_science", "Data Science & Analytics",
                  <<"python", "statistics", "sql", "machine learning", "data analysis">>,
                  <<"Junior Data Analyst", "Data Analyst Trainee",
                    "Business Intelligence Intern">>),
       CareerPath("web_development", "Web Development",
                  <<"html", "css", "javascript", "react", "frontend">>,
                  <<"Junior Web Developer", "Frontend Developer Intern",
                    "Web Developer Trainee">>),
       CareerPath("cybersecurity", "Cybersecurity",
                  <<"networking", "security", "linux", "cryptography", "ethical hacking">>,
                  <<"Security Analyst Trainee", "Junior Security Analyst",
                    "Cybersecurity Intern">>),
       CareerPath("cloud_computing", "Cloud Computing & DevOps",
                  <<"aws", "docker", "kubernetes", "ci/cd", "cloud">>,
                  <<"Junior Cloud Engineer", "DevOps Intern", "Cloud Support Engineer">>),
       CareerPath("digital_marketing", "Digital Marketing",
                  <<"seo", "social media", "content creation", "analytics",
                    "communication">>,
                  <<"Digital Marketing Intern", "Marketing Assistant",
                    "Social Media Intern">>),
       CareerPath("product_management", "Product Management",
                  <<"problem solving", "communication", "analytics",
                    "project management", "user research">>,
                  <<"Product Intern", "Associate Product Manager", "Product Analyst">>),
       CareerPath("consulting", "Business & Technology Consulting",
                  <<"communication", "problem solving", "analytics",
                    "business knowledge", "presentation">>,
                  <<"Consulting Intern", "Business Analyst", "Associate Consultant">>) >>

TECH_TERMS == <<"computer", "engineering", "science", "technology", "it", "information">>

\* [s.lower().strip() for s in xs]
LowerStripAll(xs) == [i \in 1..Len(xs) |-> Strip(Lower(xs[i]))]

\* s.split() for text whose blanks are spaces
Words(s) == SelectSeq(Split(s, " "), NonEmpty)

\* a skill matching only the first skill a path requires
skill_matches_first(skill, required_skills) ==
    Contains(required_skills[1], skill) \/ Contains(skill, required_skills[1])

\* the inner loop of the skill check: req_skill in skill or skill in req_skill
skill_matches(skill, required_skills) ==
    \E i \in 1..Len(required_skills) :
        Contains(required_skills[i], skill) \/ Contains(skill, required_skills[i])

\* the test of the interest check
interest_matches(interest, path_title_lower) ==
    \/ \E i \in 1..Len(Words(path_title_lower)) :
          Contains(Words(path_title_lower)[i], interest)
    \/ \E i \in 1..Len(Words(interest)) :
          Contains(Words(interest)[i], path_title_lower)

\* a scoring pass whose education point looks for "tech" in the path's title
score_path_title_bonus(path, skills_lower, interests_lower, education_lower) ==
    [ path_id |-> path.path_id,
      score   |-> 2 * Cardinality({i \in 1..Len(skills_lower) :
                                      skill_matches(skills_lower[i], path.required_skills)})
                  + 3 * Cardinality({i \in 1..Len(interests_lower) :
                                      interest_matches(interests_lower[i], Lower(path.title))})
                  + (IF AnyIn(TECH_TERMS, education_lower) /\ Contains("tech", Lower(path.title))
                     THEN 1 ELSE 0),
      data    |-> path,
      matched_skills |-> {skills_lower[i] : i \in
                            {j \in 1..Len(skills_lower) :
                                skill_matches(skills_lower[j], path.required_skills)}} ]

\* one pass of the scoring loop
score_path(path, skills_lower, interests_lower, education_lower) ==
    [ path_id |-> path.path_id,
      score   |-> 2 * Cardinality({i \in 1..Len(skills_lower) :
                                      skill_matches(skills_lower[i], path.required_skills)})
                  + 3 * Cardinality({i \in 1..Len(interests_lower) :
                                      interest_matches(interests_lower[i], Lower(path.title))})
                  + (IF AnyIn(TECH_TERMS, education_lower) /\ Contains("tech", path.path_id)
                     THEN 1 ELSE 0),
      data    |-> path,
      matched_skills |-> {skills_lower[i] : i \in
                            {j \in 1..Len(skills_lower) :
                                skill_matches(skills_lower[j], path.required_skills)}} ]

\* the number of entries of a score-sorted list that x goes behind
Ahead(sorted, x) == Cardinality({i \in 1..Len(sorted) : sorted[i].score > x.score})

RECURSIVE sort_reversed(_)
\* sorting by ascending score and reversing the list
sort_reversed(scored_paths) ==
    IF scored_paths = <<>> THEN <<>>
    ELSE LET rest == sort_reversed(Tail(scored_paths))
             k    == Cardinality({i \in 1..Len(rest) :
                                    rest[i].score >= Head(scored_paths).score})
         IN  SubSeq(rest, 1, k) \o <<Head(scored_paths)>> \o SubSeq(rest, k + 1, Len(rest))

RECURSIVE sort_by_score(_)
\* scored_paths.sort(key = score, reverse = True): stable, equal scores keep
\* their order
sort_by_score(scored_paths) ==
    IF scored_paths = <<>> THEN <<>>
    ELSE LET rest == sort_by_score(Tail(scored_paths))
             k    == Ahead(rest, Head(scored_paths))
         IN  SubSeq(rest, 1, k) \o <<Head(scored_paths)>> \o SubSeq(rest, k + 1, Len(rest))

RECURSIVE Join(_, _)
\* sep.join(xs)
Join(xs, sep) ==
    IF xs = <<>> THEN ""
    ELSE IF Len(xs) = 1 THEN xs[1]
    ELSE xs[1] \o sep \o Join(Tail(xs), sep)

\* xs[:n]
Take(xs, n) == SubSeq(xs, 1, IF Len(xs) < n THEN Len(xs) ELSE n)

GENERIC_ADVICE ==
    << "Start by building a strong foundation in programming and problem-solving skills.",
       "Explore different tech fields through online courses and projects.",
       "Build a portfolio showcasing your projects and skills." >>

\* missing_skills of _generate_actionable_advice
missing_skills(skills, required_skills) ==
    SelectSeq(required_skills,
              LAMBDA skill : ~\E i \in 1..Len(skills) :
                                  Contains(skill, skills[i]) \/ Contains(skills[i], skill))

\* _generate_actionable_advice; top_path is None or Some(scored path)
generate_actionable_advice(skills, interests, top_path) ==
    IF top_path = None THEN GENERIC_ADVICE
    ELSE (IF missing_skills(skills, top_path[1].data.required_skills) # <<>>
          THEN << "Skill Development: Focus on learning "
                    \o Join(Take(missing_skills(skills, top_path[1].data.required_skills), 3), ", ")
                    \o " to strengthen your profile for " \o top_path[1].data.title
                    \o " roles." >>
          ELSE <<>>)
         \o << "Build a Portfolio: " \o top_path[1].data.title >>
         \o (IF top_path[1].data.entry_level # <<>>
             THEN << "Target Roles: " \o top_path[1].data.entry_level[1] >>
             ELSE <<>>)
         \o << "Networking", "Certifications", "SDG 8 Alignment" >>

\* the recommendation built from a scored path
Recommendation(path_info) ==
    [ title             |-> path_info.data.title,
      entry_level_roles |-> path_info.data.entry_level,
      matched_skills    |-> path_info.matched_skills,
      score             |-> path_info.score ]

\* lines 96-125: every catalog path scored, sorted, the first three kept
top_paths(skills_lower, interests_lower, education_lower) ==
    Take(sort_by_score([i \in 1..Len(CAREER_PATHS) |->
                           score_path(CAREER_PATHS[i], skills_lower, interests_lower,
                                      education_lower)]),
         3)

\* lines 127-151: the response built from the top paths
career_response(skills_lower, interests_lower, top) ==
    [ recommendations   |-> [i \in 1..Len(top) |-> Recommendation(top[i])],
      actionable_advice |-> generate_actionable_advice(
                                skills_lower, interests_lower,
                                IF top # <<>> THEN Some(top[1]) ELSE None),
      aligned_with_sdg8 |-> TRUE ]

get_career_suggestions(skills, interests, education, session_id) ==
    career_response(LowerStripAll(skills), LowerStripAll(interests),
                    top_paths(LowerStripAll(skills), LowerStripAll(interests),
                              Lower(education)))

(***************************************************************************)
(* The chat as a state machine.                                            *)
(***************************************************************************)
SessionIds == {"s1"}

\* plain answers: the two intent requests (AgentWorkflow), a comma list and
\* a profile link (ResumeWorkflow)
FlowMsgs   == {"I want a resume", "what career path should I take"}
RWFlowMsgs == {"Python, Communication, Git, Teamwork", "linkedin.com/in/al"}

\* what else users type: a blank line and the declines the prompts offer
AnswerMsgs   == {"  ", " None ", "SKIP", "I want a resume", "Career"}
RWAnswerMsgs == {"  ", " None ", "SKIP", "Al", "al@x.io"}

IntentHints   == {None, Some("resume")}
RWIntentHints == {None, Some("career_guidance")}

\* ChatMessage(message, session_id, intent)
ChatMessage(message, sid, intent) ==
    [message |-> message, session_id |-> sid, intent |-> intent]

NoRequest == ChatMessage("", "", None)
NoReply   == Reply("", "", None, FALSE, FALSE, None, None)
RWNoReply == RWReply("", None, FALSE, <<>>, None)

\* the two requests of a concurrent round
CallIds == {1, 2}

\* no request is being handled
NoCalls ==
    [ pc      |-> [c \in CallIds |-> "idle"],
      message |-> [c \in CallIds |-> ""],
      running |-> 0,
      base    |-> None ]

Init ==
    /\ engine \in {"agent", "resume"}
    /\ sessions = <<>>
    /\ response = NoReply
    /\ pdfCalls = [s \in SessionIds |-> 0]
    /\ careerCalls = [s \in SessionIds |-> 0]
    /\ rw_sessions = <<>>
    /\ rw_response = RWNoReply
    /\ request = NoRequest
    /\ turns = 0
    /\ arg = <<>>
    /\ result = None
    /\ supabase_fails \in (IF engine = "agent" THEN BOOLEAN ELSE {FALSE})
    /\ rendered = [s \in SessionIds |-> None]
    /\ matched = [s \in SessionIds |-> None]
    /\ inflight = NoCalls

\* one POST /api/chat turn served by AgentWorkflow
ProcessMessage(sid, message, intent, ok) ==
    /\ engine = "agent"
    /\ LET r == process_message(get_session(sid), message, intent, ok) IN
        /\ sessions' = [s \in DOMAIN sessions \cup {sid} |->
                            IF s = sid THEN r.st ELSE sessions[s]]
        /\ response' = r.reply
        /\ pdfCalls' = [pdfCalls EXCEPT ![sid] = @ + r.pdf]
        /\ careerCalls' = [careerCalls EXCEPT ![sid] = @ + r.career]
        /\ rendered' = IF r.pdf = 1
                       THEN [rendered EXCEPT ![sid] = Some(resume_data(r.st))]
                       ELSE rendered
        /\ matched' = IF r.career = 1
                      THEN [matched EXCEPT ![sid] = Some(career_profile(r.st))]
                      ELSE matched
    /\ request' = ChatMessage(message, sid, intent)
    /\ turns' = turns + 1
    /\ UNCHANGED <<engine, supabase_fails, inflight, rw_sessions, rw_response, arg, result>>

\* one chat turn served by ResumeWorkflow
RWProcessMessage(sid, message, intent) ==
    /\ engine = "resume"
    /\ LET st == IF sid \in DOMAIN rw_sessions THEN rw_sessions[sid]
                 ELSE ResumeState(sid, IF intent # None THEN intent
                                       ELSE Some(detect_intent(message)))
           r == rw_process_message(st, message)
       IN /\ rw_sessions' = [s \in DOMAIN rw_sessions \cup {sid} |->
                                IF s = sid THEN r.st ELSE rw_sessions[s]]
          /\ rw_response' = r.reply
    /\ request' = ChatMessage(message, sid, intent)
    /\ turns' = turns + 1
    /\ UNCHANGED <<engine, supabase_fails, rendered, matched, inflight, sessions, response, pdfCalls, careerCalls, arg, result>>

\* a run with plain answers
Chat ==
    /\ turns < MaxTurns
    /\ \E sid \in SessionIds, message \in FlowMsgs, intent \in IntentHints :
          ProcessMessage(sid, message, intent, TRUE)

RWChat ==
    /\ turns < MaxTurns
    /\ \E sid \in SessionIds, message \in RWFlowMsgs, intent \in IntentHints :
          RWProcessMessage(sid, message, intent)

Next == Chat \/ RWChat

Spec == Init /\ [][Next]_vars

\* a shorter run in which blank and skip/none answers are given too
ChatAnswers ==
    /\ turns < MaxAnswerTurns
    /\ \E sid \in SessionIds, message \in AnswerMsgs, intent \in IntentHints :
          ProcessMessage(sid, message, intent, TRUE)

RWChatAnswers ==
    /\ turns < MaxAnswerTurns
    /\ \E sid \in SessionIds, message \in RWAnswerMsgs, intent \in RWIntentHints :
          RWProcessMessage(sid, message, intent)

NextAnswers == ChatAnswers \/ RWChatAnswers

SpecAnswers == Init /\ [][NextAnswers]_vars

\* a ResumeWorkflow run up to the link slot, with names, e-mail addresses
\* and links as answers
RWFieldMsgs ==
    {"Al", "Al@X.io", "linkedin.com/in/al", "Https://linkedin.com/in/al",
     " github.com/al "}

RWChatFields ==
    /\ turns < MaxFieldTurns
    /\ \E sid \in SessionIds, message \in RWFieldMsgs :
          RWProcessMessage(sid, message, None)

InitFields == Init /\ engine = "resume"

SpecFields == InitFields /\ [][RWChatFields]_vars

\* an AgentWorkflow run in which the collaborator a call reaches may raise:
\* ResumeGenerator cannot be loaded, or the scoring raises
ChatFailure ==
    /\ turns < MaxFailureTurns
    /\ \E sid \in SessionIds, message \in FlowMsgs, ok \in BOOLEAN :
          ProcessMessage(sid, message, None, ok)

InitFailure == Init /\ engine = "agent" /\ ~supabase_fails

SpecFailure == InitFailure /\ [][ChatFailure]_vars

\* a get_resume that reports the link under the other attribute
get_resume_links_swapped(sid) ==
    IF sid \notin DOMAIN sessions THEN None
    ELSE Some([ name            |-> sessions[sid].name,
                email           |-> sessions[sid].email,
                linkedin        |-> sessions[sid].portfolio,
                portfolio       |-> sessions[sid].linkedin,
                summary         |-> sessions[sid].summary,
                education       |-> sessions[sid].education,
                skills          |-> sessions[sid].skills,
                experience      |-> sessions[sid].experience,
                projects        |-> sessions[sid].projects,
                achievements    |-> sessions[sid].achievements,
                certifications  |-> sessions[sid].certifications,
                resume_complete |-> sessions[sid].resume_complete ])

\* AgentWorkflow.get_resume: None for an unknown session id
get_resume(sid) ==
    IF sid \notin DOMAIN sessions THEN None
    ELSE Some([ name            |-> sessions[sid].name,
                email           |-> sessions[sid].email,
                linkedin        |-> sessions[sid].linkedin,
                portfolio       |-> sessions[sid].portfolio,
                summary         |-> sessions[sid].summary,
                education       |-> sessions[sid].education,
                skills          |-> sessions[sid].skills,
                experience      |-> sessions[sid].experience,
                projects        |-> sessions[sid].projects,
                achievements    |-> sessions[sid].achievements,
                certifications  |-> sessions[sid].certifications,
                resume_complete |-> sessions[sid].resume_complete ])

\* what an endpoint sends: the status and the body, or the detail of the
\* HTTPException it raised
HttpReply(endpoint, sid, status, body, detail) ==
    [ endpoint |-> endpoint, session_id |-> sid, status |-> status,
      body |-> body, detail |-> detail ]

\* str(HTTPException(status_code, detail))
HttpErrorText(status_code, detail) ==
    (CASE status_code = 404 -> "404" [] status_code = 400 -> "400" [] OTHER -> "500")
        \o ": " \o detail

\* GET /api/resume/{session_id}: the HTTPException raised inside the try
\* block is an Exception and is caught by the handler of the same block
api_get_resume(sid) ==
    IF get_resume(sid) = None
    THEN HttpReply("get_resume", sid, 500, None,
                   HttpErrorText(404, "Resume not found"))
    ELSE HttpReply("get_resume", sid, 200, get_resume(sid), "")

LookupIds == {"s1", "s2"}

GetResume(sid) ==
    /\ engine = "agent"
    /\ result' = Some(api_get_resume(sid))
    /\ UNCHANGED <<supabase_fails, rendered, matched, inflight, sessions, response, pdfCalls, careerCalls,
                   rw_sessions, rw_response, request, turns, arg, engine>>

\* a short AgentWorkflow chat
ChatLookup ==
    /\ turns < MaxLookupTurns
    /\ \E sid \in SessionIds, message \in FlowMsgs :
          ProcessMessage(sid, message, None, TRUE)

Lookup == \E sid \in LookupIds : GetResume(sid)

NextLookup == ChatLookup \/ Lookup

SpecLookup == InitFailure /\ [][NextLookup]_vars

\* a full resume collection, further messages, and fetches of the stored
\* resume at any time
ChatRoundTrip ==
    /\ turns < MaxRoundTripTurns
    /\ \E sid \in SessionIds, message \in FlowMsgs :
          ProcessMessage(sid, message, None, TRUE)

FetchRoundTrip == \E sid \in SessionIds : GetResume(sid)

NextRoundTrip == ChatRoundTrip \/ FetchRoundTrip

SpecRoundTrip == InitFailure /\ [][NextRoundTrip]_vars

(***************************************************************************)
(* Intent requests: each message with the keyword sets it contains, as a   *)
(* reader finds them in the text.                                          *)
(***************************************************************************)
IntentCase(msg, resume, career) == [msg |-> msg, resume |-> resume, career |-> career]

IntentCases ==
    { IntentCase("I want a resume", TRUE, FALSE),
      IntentCase("what career path should I take", FALSE, TRUE),
      IntentCase("hello", FALSE, FALSE),
      IntentCase("My CV and some career advice", TRUE, TRUE),
      IntentCase("Career guidance first, then build resume", TRUE, TRUE),
      IntentCase("  RESUME  ", TRUE, FALSE),
      IntentCase("Any Recommendation?", FALSE, TRUE),
      IntentCase("What should I do", FALSE, TRUE),
      IntentCase("", FALSE, FALSE),
      IntentCase("Thanks", FALSE, FALSE),
      IntentCase("GUIDANCE", FALSE, TRUE),
      IntentCase("make Resume", TRUE, FALSE) }

IntentMsgs == {c.msg : c \in IntentCases}

ChatIntent ==
    /\ turns < MaxIntentTurns
    /\ \E sid \in SessionIds, message \in IntentMsgs, intent \in IntentHints :
          ProcessMessage(sid, message, intent, TRUE)

InitIntent == Init /\ engine = "agent"

SpecIntent == InitIntent /\ [][ChatIntent]_vars

(***************************************************************************)
(* The skills branch of ResumeWorkflow on its own: the answer is a list of *)
(* tokens joined by commas.                                                *)
(***************************************************************************)
SkillToken(raw, trimmed, soft) == [raw |-> raw, trimmed |-> trimmed, soft |-> soft]

\* what users write between the commas, trimmed, and whether it names one
\* of the seven soft skills
SkillTokens ==
    { SkillToken("Python", "Python", FALSE),
      SkillToken(" Communication", "Communication", TRUE),
      SkillToken(" Git", "Git", FALSE),
      SkillToken(" Teamwork", "Teamwork", TRUE),
      SkillToken(" LEADERSHIP skills ", "LEADERSHIP skills", TRUE),
      SkillToken("time-management", "time-management", FALSE),
      SkillToken(" ", "", FALSE) }

RECURSIVE SeqsUpTo(_, _)
\* the sequences over S of length 1..n
SeqsUpTo(S, n) ==
    IF n = 0 THEN {}
    ELSE LET shorter == SeqsUpTo(S, n - 1)
         IN  {<<x>> : x \in S} \cup shorter \cup {Append(q, x) : q \in shorter, x \in S}

RECURSIVE JoinRaw(_)
\* ",".join(token.raw for token in tokens)
JoinRaw(tokens) ==
    IF Len(tokens) = 1 THEN tokens[1].raw
    ELSE tokens[1].raw \o "," \o JoinRaw(Tail(tokens))

InitSkills ==
    /\ engine = "resume"
    /\ sessions = <<>>
    /\ response = NoReply
    /\ pdfCalls = [s \in SessionIds |-> 0]
    /\ careerCalls = [s \in SessionIds |-> 0]
    /\ rw_sessions = <<>>
    /\ rw_response = RWNoReply
    /\ request = NoRequest
    /\ turns = 0
    /\ arg \in SeqsUpTo(SkillTokens, MaxSkillTokens)
    /\ result = None
    /\ supabase_fails = FALSE
    /\ rendered = [s \in SessionIds |-> None]
    /\ matched = [s \in SessionIds |-> None]
    /\ inflight = NoCalls

ApplyClassifySkills ==
    /\ result = None
    /\ result' = Some(classify_skills(JoinRaw(arg)))
    /\ UNCHANGED <<engine, supabase_fails, rendered, matched, inflight, sessions, response, pdfCalls, careerCalls,
                   rw_sessions, rw_response, request, turns, arg>>

SpecSkills == InitSkills /\ [][ApplyClassifySkills]_vars

(***************************************************************************)
(* _store_resume_field of AgentWorkflow on a skills answer: the session    *)
(* awaits the skills slot and the answer is a list of tokens joined by     *)
(* commas.                                                                 *)
(***************************************************************************)
\* a session of the resume flow that awaits the given field
AwaitingSession(sid, field) ==
    [AgentStateData(sid) EXCEPT !.current_state = RESUME_COLLECTION,
                                !.intent = Some(RESUME),
                                !.current_field = Some(field)]

InitAgentSkills ==
    /\ engine = "agent"
    /\ sessions = <<>>
    /\ response = NoReply
    /\ pdfCalls = [s \in SessionIds |-> 0]
    /\ careerCalls = [s \in SessionIds |-> 0]
    /\ rw_sessions = <<>>
    /\ rw_response = RWNoReply
    /\ request = NoRequest
    /\ turns = 0
    /\ arg \in SeqsUpTo(SkillTokens, MaxSkillTokens)
    /\ result = None
    /\ supabase_fails = FALSE
    /\ rendered = [s \in SessionIds |-> None]
    /\ matched = [s \in SessionIds |-> None]
    /\ inflight = NoCalls

ApplyStoreSkills ==
    /\ result = None
    /\ result' = store_resume_field(AwaitingSession("s1", "skills"), "skills",
                                    JoinRaw(arg)).skills
    /\ UNCHANGED <<engine, supabase_fails, rendered, matched, inflight, sessions, response, pdfCalls, careerCalls,
                   rw_sessions, rw_response, request, turns, arg>>

SpecAgentSkills == InitAgentSkills /\ [][ApplyStoreSkills]_vars

(***************************************************************************)
(* get_career_suggestions on its own: a profile of skills, interests and   *)
(* education.                                                              *)
(***************************************************************************)
CareerSkillInputs == {"python", "sql", " SEO", "Communication", ""}
CareerInterestInputs == {"data", "Web design", "people"}
CareerEducationInputs == {"", "BSc Computer Science"}

\* the sequences over S of length 0..n
SeqsFrom0(S, n) == {<<>>} \cup SeqsUpTo(S, n)

InitCareer ==
    /\ engine = "agent"
    /\ sessions = <<>>
    /\ response = NoReply
    /\ pdfCalls = [s \in SessionIds |-> 0]
    /\ careerCalls = [s \in SessionIds |-> 0]
    /\ rw_sessions = <<>>
    /\ rw_response = RWNoReply
    /\ request = NoRequest
    /\ turns = 0
    /\ arg \in {Profile(sk, it, ed) : sk \in SeqsFrom0(CareerSkillInputs, MaxCareerSkills),
                                      it \in SeqsFrom0(CareerInterestInputs, MaxCareerInterests),
                                      ed \in CareerEducationInputs}
    /\ result = None
    /\ supabase_fails = FALSE
    /\ rendered = [s \in SessionIds |-> None]
    /\ matched = [s \in SessionIds |-> None]
    /\ inflight = NoCalls

ApplyCareerSuggestions ==
    /\ result = None
    /\ result' = Some(get_career_suggestions(arg.skills, arg.interests, arg.education, "s1"))
    /\ UNCHANGED <<engine, supabase_fails, rendered, matched, inflight, sessions, response, pdfCalls, careerCalls,
                   rw_sessions, rw_response, request, turns, arg>>

SpecCareer == InitCareer /\ [][ApplyCareerSuggestions]_vars

(***************************************************************************)
(* POST /api/career/guidance next to a chat in the career flow.            *)
(***************************************************************************)
\* AgentWorkflow.get_career_data: None for an unknown session id
get_career_data(sid) ==
    IF sid \notin DOMAIN sessions THEN None
    ELSE Some([ career_complete |-> sessions[sid].career_complete,
                skills          |-> sessions[sid].career_skills,
                interests       |-> sessions[sid].career_interests,
                education       |-> sessions[sid].career_education ])

\* CareerGuidanceRequest
CareerGuidanceRequest(skills, interests, education, sid) ==
    [skills |-> skills, interests |-> interests, education |-> education,
     session_id |-> sid]

\* lines 209-223: the profile the endpoint scores
guidance_profile(req, career_data) ==
    IF req.session_id # "" /\ career_data # None /\ career_data[1].career_complete
    THEN Profile(OrList(career_data[1].skills, req.skills),
                 OrList(career_data[1].interests, req.interests),
                 OrStr(career_data[1].education, req.education))
    ELSE Profile(req.skills, req.interests, req.education)

\* the endpoint's answer for the profile it scores
guidance_reply(req, profile) ==
    HttpReply("career_guidance", req.session_id, 200,
              Some(get_career_suggestions(profile.skills, profile.interests,
                                          profile.education, req.session_id)),
              "")

\* POST /api/career/guidance
api_career_guidance(req) ==
    guidance_reply(req, guidance_profile(req, get_career_data(req.session_id)))

GuidanceMsgs == {"what career path should I take", "seo"}

GuidanceRequests ==
    { CareerGuidanceRequest(<<"python", "sql">>, <<"data">>, "BSc Computer Science", sid) :
          sid \in LookupIds \cup {""} }
    \cup { CareerGuidanceRequest(<<>>, <<>>, "", "s1") }

ChatGuidance ==
    /\ turns < MaxGuidanceTurns
    /\ \E sid \in SessionIds, message \in GuidanceMsgs :
          ProcessMessage(sid, message, None, TRUE)

CareerGuidance ==
    /\ engine = "agent"
    /\ \E req \in GuidanceRequests :
          /\ arg' = req
          /\ result' = Some(api_career_guidance(req))
    /\ UNCHANGED <<engine, supabase_fails, rendered, matched, inflight, sessions, response, pdfCalls,
                   careerCalls, rw_sessions, rw_response, request, turns>>

NextGuidance == ChatGuidance \/ CareerGuidance

SpecGuidance == InitFailure /\ [][NextGuidance]_vars

(***************************************************************************)
(* Life cycle of a session: chat, the two lookups and DELETE /api/session. *)
(***************************************************************************)
\* the store without any session
clear_session_all(sid) == <<>>

\* AgentWorkflow.clear_session: the store after the call
clear_session(sid) ==
    IF sid \in DOMAIN sessions
    THEN [s \in DOMAIN sessions \ {sid} |-> sessions[s]]
    ELSE sessions

\* DELETE /api/session/{session_id}
api_clear_session(sid) ==
    HttpReply("clear_session", sid, 200,
              Some([message |-> "Session cleared successfully"]), "")

ClearSession(sid) ==
    /\ engine = "agent"
    /\ sessions' = clear_session(sid)
    /\ result' = Some(api_clear_session(sid))
    /\ UNCHANGED <<engine, supabase_fails, rendered, matched, inflight, response, pdfCalls, careerCalls,
                   rw_sessions, rw_response, request, turns, arg>>

ChatLifecycle ==
    /\ turns < MaxLifecycleTurns
    /\ \E sid \in SessionIds, message \in FlowMsgs :
          ProcessMessage(sid, message, None, TRUE)

ClearLifecycle == \E sid \in LookupIds : ClearSession(sid)

NextLifecycle == ChatLifecycle \/ Lookup \/ CareerGuidance \/ ClearLifecycle

SpecLifecycle == InitFailure /\ [][NextLifecycle]_vars

(***************************************************************************)
(* The career flow of AgentWorkflow with answers of every kind.            *)
(***************************************************************************)
CareerFlowMsgs == {"career", "python, sql", "  "}

ChatCareerFlow ==
    /\ turns < MaxCareerFlowTurns
    /\ \E sid \in SessionIds, message \in CareerFlowMsgs :
          ProcessMessage(sid, message, None, TRUE)

SpecCareerFlow == InitFailure /\ [][ChatCareerFlow]_vars

(***************************************************************************)
(* ResumeGenerator.generate_pdf applied on its own.  renderer_fails says   *)
(* that a call into the PDF library raises, open_fails that the fallback   *)
(* text file cannot be opened.                                             *)
(***************************************************************************)
\* what a call did: the value returned, or an exception, and the files left
Returned(value, files) == [raised |-> FALSE, returned |-> Some(value), files |-> files]
Propagated(files) == [raised |-> TRUE, returned |-> None, files |-> files]

File(path, content) == [path |-> path, content |-> content]

\* the " | "-joined contact line: the truthy ones of email, linkedin, portfolio
contact_parts(data) ==
    (IF Truthy(Get(data, "email", "")) THEN <<"Email">> ELSE <<>>)
    \o (IF Truthy(Get(data, "linkedin", "")) THEN <<"LinkedIn">> ELSE <<>>)
    \o (IF Truthy(Get(data, "portfolio", "")) THEN <<"Portfolio">> ELSE <<>>)

\* the section headings of the document, in the order they are written
sections(data) ==
    (IF contact_parts(data) # <<>> THEN <<"Contact">> ELSE <<>>)
    \o (IF Truthy(Get(data, "summary", ""))
        THEN <<"Professional Summary">> ELSE <<>>)
    \o (IF TruthyDict(Get(data, "skills", <<>>)) THEN <<"Skills">> ELSE <<>>)
    \o (IF TruthyList(Get(data, "experience", <<>>))
        THEN <<"Professional Experience">> ELSE <<>>)
    \o (IF TruthyList(Get(data, "education", <<>>)) THEN <<"Education">> ELSE <<>>)
    \o (IF TruthyList(Get(data, "projects", <<>>)) THEN <<"Projects">> ELSE <<>>)
    \o (IF TruthyList(Get(data, "certifications", <<>>))
        THEN <<"Certifications">> ELSE <<>>)
    \o (IF TruthyList(Get(data, "achievements", <<>>))
        THEN <<"Achievements">> ELSE <<>>)

\* the try block: the document is written by pdf.output at its end
render_pdf(data, output_file, renderer_fails) ==
    IF renderer_fails THEN Propagated({})
    ELSE Returned(output_file,
                  {File(output_file, <<Get(data, "name", "Your Name")>>
                                         \o sections(data))})

\* the except block: a text file next to the document, best effort
fallback_txt(data, output_file, open_fails) ==
    IF open_fails THEN {}
    ELSE {File(Replace(output_file, ".pdf", ".txt"),
               <<Get(data, "name", "User"), Some("Generated with FPDF")>>)}

\* generate_pdf without its except block
generate_pdf_unguarded(data, output_file, renderer_fails, open_fails) ==
    render_pdf(data, output_file, renderer_fails)

\* ResumeGenerator.generate_pdf
generate_pdf(data, output_file, renderer_fails, open_fails) ==
    IF render_pdf(data, output_file, renderer_fails).raised
    THEN Returned(output_file, fallback_txt(data, output_file, open_fails))
    ELSE Returned(output_file,
                  render_pdf(data, output_file, renderer_fails).files)

\* the record of test_resume.py
TestResume ==
    [ name           |-> Some("John Doe"),
      email          |-> Some("john@example.com"),
      linkedin       |-> Some("https://linkedin.com/in/johndoe"),
      portfolio      |-> Some("https://github.com/johndoe"),
      summary        |-> Some("Aspiring software engineer with strong Python skills."),
      education      |-> Some(<<[details |-> "BSc Computer Science, XYZ University"]>>),
      skills         |-> Some([technical |-> <<"Python", "Git">>,
                               soft |-> <<"Communication">>]),
      experience     |-> Some(<<[details |-> "Intern at ABC Corp"]>>),
      projects       |-> Some(<<[details |-> "Personal portfolio website"]>>),
      achievements   |-> Some(<<"Dean's List 2025">>),
      certifications |-> Some(<<"AWS Certified Developer">>) ]

\* records with optional fields missing, None or empty
RenderRecords ==
    { TestResume,
      resume_data(AgentStateData("s1")),
      [name |-> Some("John Doe")],
      [name |-> Some("John Doe"), email |-> Some("john@example.com"),
       summary |-> None, skills |-> None],
      [email |-> Some(""), certifications |-> Some(<<>>), achievements |-> Some(<<"">>)],
      [TestResume EXCEPT !.name = None, !.linkedin = None, !.skills = None] }

RenderFiles == {"resume.pdf", "generated_resumes/s1_resume.pdf", "s1_resume"}

InitRender ==
    /\ engine = "agent"
    /\ sessions = <<>>
    /\ response = NoReply
    /\ pdfCalls = [s \in SessionIds |-> 0]
    /\ careerCalls = [s \in SessionIds |-> 0]
    /\ rw_sessions = <<>>
    /\ rw_response = RWNoReply
    /\ request = NoRequest
    /\ turns = 0
    /\ arg \in [resume_data : RenderRecords, output_file : RenderFiles,
                renderer_fails : BOOLEAN, open_fails : BOOLEAN]
    /\ result = None
    /\ supabase_fails = FALSE
    /\ rendered = [s \in SessionIds |-> None]
    /\ matched = [s \in SessionIds |-> None]
    /\ inflight = NoCalls

ApplyGeneratePdf ==
    /\ result = None
    /\ result' = Some(generate_pdf(arg.resume_data, arg.output_file,
                                   arg.renderer_fails, arg.open_fails))
    /\ UNCHANGED <<engine, supabase_fails, rendered, matched, inflight, sessions, response,
                   pdfCalls, careerCalls, rw_sessions, rw_response, request, turns, arg>>

SpecRender == InitRender /\ [][ApplyGeneratePdf]_vars

(***************************************************************************)
(* Two chat requests for one session handled at once.  A request is the    *)
(* coroutine chat -> process_message -> node -> node ...; the event loop   *)
(* runs a coroutine until it suspends or returns.  A call advances one     *)
(* coroutine body at a time; inflight.running is the call that holds the   *)
(* loop, 0 when the loop is free.                                          *)
(***************************************************************************)
\* a coroutine body handed control to the next one / returned its result
Await(st, next) == [st |-> st, next |-> next, reply |-> NoReply, pdf |-> 0, career |-> 0]
Return(r) == [st |-> r.st, next |-> "done", reply |-> r.reply, pdf |-> r.pdf,
              career |-> r.career]

\* process_message, lines 327-340
process_message_body(st, message) ==
    IF st.current_state = START THEN Await(st, "start_node")
    ELSE IF st.current_state = INTENT THEN Await(st, "intent_node")
    ELSE IF st.current_state = RESUME_COLLECTION THEN Await(st, "resume_node")
    ELSE IF st.current_state = CAREER_COLLECTION THEN Await(st, "career_node")
    ELSE IF st.current_state \in {RESUME_OUTPUT, CAREER_OUTPUT}
         THEN Await(st, "output_node")
    ELSE Await([st EXCEPT !.current_state = START], "start_node")

\* start_node, lines 91-106
start_node_body(st, message) ==
    IF st.current_state = START THEN Return(start_node(st, message, TRUE))
    ELSE Await(st, "intent_node")

\* intent_node, lines 110-138
intent_node_body(st, message) ==
    IF classify_intent(message) = UNKNOWN THEN Return(intent_node(st, message, TRUE))
    ELSE IF classify_intent(message) = RESUME
         THEN Await([st EXCEPT !.intent = Some(RESUME),
                               !.current_state = RESUME_COLLECTION,
                               !.messages = Append(@, Msg("user", message))],
                    "resume_node")
    ELSE Await([st EXCEPT !.intent = Some(CAREER),
                          !.current_state = CAREER_COLLECTION,
                          !.messages = Append(@, Msg("user", message))],
               "career_node")

\* the session after the answer to the awaited field is stored
answer_stored(st, stored) ==
    IF st.current_field # None THEN [stored EXCEPT !.current_field = None] ELSE st

\* resume_node, lines 142-156
resume_node_body(st, message) ==
    IF get_next_resume_field(
           answer_stored(st, IF st.current_field # None
                             THEN store_resume_field(st, st.current_field[1], message)
                             ELSE st)) = None
    THEN Await([answer_stored(st, IF st.current_field # None
                                  THEN store_resume_field(st, st.current_field[1], message)
                                  ELSE st)
                   EXCEPT !.current_state = RESUME_OUTPUT], "output_node")
    ELSE Return(resume_node(st, message, TRUE))

\* career_node, lines 160-174
career_node_body(st, message) ==
    IF get_next_career_field(
           answer_stored(st, IF st.current_field # None
                             THEN store_career_field(st, st.current_field[1], message)
                             ELSE st)) = None
    THEN Await([answer_stored(st, IF st.current_field # None
                                  THEN store_career_field(st, st.current_field[1], message)
                                  ELSE st)
                   EXCEPT !.current_state = CAREER_OUTPUT], "output_node")
    ELSE Return(career_node(st, message, TRUE))

\* the coroutine body a call is at, applied to the stored session
body(pc, st, message) ==
    CASE pc = "process_message" -> process_message_body(st, message)
      [] pc = "start_node"      -> start_node_body(st, message)
      [] pc = "intent_node"     -> intent_node_body(st, message)
      [] pc = "resume_node"     -> resume_node_body(st, message)
      [] pc = "career_node"     -> career_node_body(st, message)
      [] pc = "output_node"     -> Return(output_node(st, message, TRUE))

\* every await suspends and lets the event loop run another request
suspends_at_every_await(caller, callee) == TRUE

\* `await self.<node>(...)`: awaiting a coroutine runs its body at once; the
\* event loop gets control only from a body that awaits a pending future,
\* and neither the nodes nor get_career_suggestions nor generate_pdf do
suspends(caller, callee) == FALSE

ConcurrentMsgs == {"I want a resume", "what career path should I take", "Al"}

\* the chat before the two requests arrive
ChatConcurrent ==
    /\ turns < MaxConcurrentTurns
    /\ inflight = NoCalls
    /\ \E sid \in SessionIds, message \in FlowMsgs :
          ProcessMessage(sid, message, None, TRUE)

\* two requests for the session arrive: the handlers are scheduled
Submit ==
    /\ engine = "agent"
    /\ inflight = NoCalls
    /\ \E m1 \in ConcurrentMsgs, m2 \in ConcurrentMsgs :
          inflight' = [ pc      |-> [c \in CallIds |-> "process_message"],
                        message |-> [c \in CallIds |-> IF c = 1 THEN m1 ELSE m2],
                        running |-> 0,
                        base    |-> Some(get_session("s1")) ]
    /\ UNCHANGED <<engine, supabase_fails, rendered, matched, sessions, response,
                   pdfCalls, careerCalls, rw_sessions, rw_response, request, turns,
                   arg, result>>

\* the event loop runs the next coroutine body of call c
StepCall(c) ==
    /\ engine = "agent"
    /\ inflight.pc[c] \notin {"idle", "done"}
    /\ inflight.running \in {0, c}
    /\ LET r == body(inflight.pc[c], get_session("s1"), inflight.message[c]) IN
        /\ sessions' = [s \in DOMAIN sessions \cup {"s1"} |->
                            IF s = "s1" THEN r.st ELSE sessions[s]]
        /\ pdfCalls' = [pdfCalls EXCEPT !["s1"] = @ + r.pdf]
        /\ careerCalls' = [careerCalls EXCEPT !["s1"] = @ + r.career]
        /\ rendered' = IF r.pdf = 1
                       THEN [rendered EXCEPT !["s1"] = Some(resume_data(r.st))]
                       ELSE rendered
        /\ matched' = IF r.career = 1
                      THEN [matched EXCEPT !["s1"] = Some(career_profile(r.st))]
                      ELSE matched
        /\ inflight' = [inflight EXCEPT
                           !.pc[c] = r.next,
                           !.running = IF r.next = "done" \/ suspends(inflight.pc[c], r.next)
                                       THEN 0 ELSE c]
        /\ IF r.next = "done"
           THEN /\ response' = r.reply
                /\ request' = ChatMessage(inflight.message[c], "s1", None)
                /\ turns' = turns + 1
           ELSE UNCHANGED <<response, request, turns>>
    /\ UNCHANGED <<engine, supabase_fails, rw_sessions, rw_response, arg, result>>

Run == \E c \in CallIds : StepCall(c)

NextConcurrent == ChatConcurrent \/ Submit \/ Run

SpecConcurrent == InitFailure /\ [][NextConcurrent]_vars

(***************************************************************************)
(* run_ai_resume_workflow, the background task of the webhook, applied on  *)
(* its own: steps 5 (files) and 6 (persistence) for the resume JSON that   *)
(* steps 1-4 built.  env says what fails around the call.                  *)
(***************************************************************************)
\* SupabaseService.is_enabled
is_enabled(service) == service = "enabled"

\* what a SupabaseService method did: the request it made, if any, whether
\* the data arrived, and whether an exception left the method
ServiceCall(name, requested, saved, raised) ==
    [name |-> name, requested |-> requested, saved |-> saved, raised |-> raised]

\* save_resume_results letting a failed request escape
save_resume_results_raising(service, request_fails) ==
    ServiceCall("save_resume_results", is_enabled(service),
                is_enabled(service) /\ ~request_fails,
                is_enabled(service) /\ request_fails)

\* SupabaseService.save_resume_results: a failed request is swallowed
save_resume_results(service, request_fails) ==
    ServiceCall("save_resume_results", is_enabled(service),
                is_enabled(service) /\ ~request_fails, FALSE)

\* SupabaseService.save_resume_file: nothing to do when the service is
\* disabled or the file does not exist; a failed upload is swallowed
save_resume_file(service, file_path, exists, upload_fails) ==
    ServiceCall("save_resume_file:" \o file_path,
                is_enabled(service) /\ exists,
                is_enabled(service) /\ exists /\ ~upload_fails, FALSE)

\* ResumeGenerator.generate_docx: the path without a file when python-docx
\* is missing, an exception when building or saving the document fails
generate_docx(output_file, docx) ==
    CASE docx = "not_installed" -> Returned(output_file, {})
      [] docx = "raises"        -> Propagated({})
      [] OTHER                  -> Returned(output_file, {File(output_file, <<>>)})

\* what run_ai_resume_workflow did
Workflow(raised, pdf_path, docx_path, calls) ==
    [raised |-> raised, pdf_path |-> pdf_path, docx_path |-> docx_path, calls |-> calls]

\* lines 573-586: the uploads, inside the try block opened at line 565
upload_docx(env, pdf_path, docx_path, docx_file, calls) ==
    IF docx_path = "" THEN Workflow(FALSE, pdf_path, docx_path, calls)
    ELSE Workflow(FALSE, pdf_path, docx_path,
                  Append(calls, save_resume_file(env.service, docx_path,
                                                 docx_file.files # {},
                                                 env.docx_upload_fails)))

upload_pdf(env, pdf_path, docx_path, pdf_file, docx_file, calls) ==
    IF pdf_path = "" THEN upload_docx(env, pdf_path, docx_path, docx_file, calls)
    ELSE IF save_resume_file(env.service, pdf_path,
                             \E f \in pdf_file.files : f.path = pdf_path,
                             env.pdf_upload_fails).raised
    THEN Workflow(FALSE, pdf_path, docx_path,
                  Append(calls, save_resume_file(env.service, pdf_path,
                             \E f \in pdf_file.files : f.path = pdf_path,
                             env.pdf_upload_fails)))
    ELSE upload_docx(env, pdf_path, docx_path, docx_file,
                     Append(calls, save_resume_file(env.service, pdf_path,
                                \E f \in pdf_file.files : f.path = pdf_path,
                                env.pdf_upload_fails)))

\* lines 564-593: nothing without a service; an exception of a call ends
\* the try block and is dropped
persist(env, pdf_path, docx_path, pdf_file, docx_file) ==
    IF env.service = "none" THEN Workflow(FALSE, pdf_path, docx_path, <<>>)
    ELSE IF save_resume_results(env.service, env.results_fail).raised
    THEN Workflow(FALSE, pdf_path, docx_path,
                  <<save_resume_results(env.service, env.results_fail)>>)
    ELSE upload_pdf(env, pdf_path, docx_path, pdf_file, docx_file,
                    <<save_resume_results(env.service, env.results_fail)>>)

\* lines 552-562: the two files; a path is emptied when its generator raises
generate_files(env, pdf_path, docx_path, pdf_file, docx_file) ==
    persist(env,
            IF pdf_file.raised THEN "" ELSE pdf_path,
            IF docx_file.raised THEN "" ELSE docx_path,
            pdf_file, docx_file)

\* run_ai_resume_workflow: `from resume_generator import ResumeGenerator`
\* (which imports fpdf) is outside every try block
run_ai_resume_workflow(session_id, resume_json, env) ==
    IF ~env.renderer_available
    THEN Workflow(TRUE, "generated_resumes/" \o session_id \o "_resume.pdf",
                  "generated_resumes/" \o session_id \o "_resume.docx", <<>>)
    ELSE generate_files(env,
            "generated_resumes/" \o session_id \o "_resume.pdf",
            "generated_resumes/" \o session_id \o "_resume.docx",
            generate_pdf(resume_json, "generated_resumes/" \o session_id \o "_resume.pdf",
                         env.renderer_fails, FALSE),
            generate_docx("generated_resumes/" \o session_id \o "_resume.docx", env.docx))

\* the service handed to the task, and what fails during the task
Environments ==
    [ service            : {"none", "disabled", "enabled"},
      renderer_available : BOOLEAN,
      renderer_fails     : BOOLEAN,
      docx               : {"saved", "raises", "not_installed"},
      results_fail       : BOOLEAN,
      pdf_upload_fails   : BOOLEAN,
      docx_upload_fails  : BOOLEAN ]

InitPipeline ==
    /\ engine = "agent"
    /\ sessions = <<>>
    /\ response = NoReply
    /\ pdfCalls = [s \in SessionIds |-> 0]
    /\ careerCalls = [s \in SessionIds |-> 0]
    /\ rw_sessions = <<>>
    /\ rw_response = RWNoReply
    /\ request = NoRequest
    /\ turns = 0
    /\ arg \in Environments
    /\ result = None
    /\ supabase_fails = FALSE
    /\ rendered = [s \in SessionIds |-> None]
    /\ matched = [s \in SessionIds |-> None]
    /\ inflight = NoCalls

ApplyWorkflow ==
    /\ result = None
    /\ result' = Some(run_ai_resume_workflow("s1", TestResume, arg))
    /\ UNCHANGED <<engine, supabase_fails, rendered, matched, inflight, sessions,
                   response, pdfCalls, careerCalls, rw_sessions, rw_response, request,
                   turns, arg>>

SpecPipeline == InitPipeline /\ [][ApplyWorkflow]_vars

(***************************************************************************)
(* Vocabulary of the properties.                                           *)
(***************************************************************************)
\* slot i of the resume schema holds a value: either attribute of an OR-slot
ResumeSlotFilled(st, i) ==
    CASE i = 1 -> Truthy(st.name)
      [] i = 2 -> Truthy(st.email)
      [] i = 3 -> Truthy(st.linkedin) \/ Truthy(st.portfolio)
      [] i = 4 -> Truthy(st.summary)
      [] i = 5 -> TruthyList(st.education)
      [] i = 6 -> TruthyDict(st.skills)
      [] i = 7 -> TruthyList(st.experience)
      [] i = 8 -> TruthyList(st.projects)
      [] i = 9 -> TruthyList(st.achievements) \/ TruthyList(st.certifications)

AllResumeSlotsFilled(st) == \A i \in 1..9 : ResumeSlotFilled(st, i)

SlotIndex(field) == CHOOSE i \in 1..9 : RESUME_FIELDS[i] = field

\* the resume slot an AgentWorkflow session awaits, 0 if none (in the career
\* flow current_field names a career field)
AwaitedSlot(st) ==
    IF st.current_state = RESUME_COLLECTION /\ st.current_field # None
    THEN SlotIndex(st.current_field[1]) ELSE 0

\* the resume slot a ResumeWorkflow session awaits, 0 if none
RWAwaitedSlot(st) ==
    IF st.current_field # None THEN SlotIndex(st.current_field[1]) ELSE 0

\* 'skip' or 'none' in any letter case
IsDecline(message) == Lower(Strip(message)) \in {"skip", "none"}

ResumePrompts == {get_resume_prompt(RESUME_FIELDS[i]) : i \in 1..9}
IsResumePrompt(e) == e.role = "assistant" /\ e.content \in ResumePrompts

\* the resume prompts of a transcript, in the order they were given
PromptsAsked(messages) == SelectSeq(messages, IsResumePrompt)

RecordAttrs ==
    {"name", "email", "linkedin", "portfolio", "summary", "education", "skills",
     "experience", "projects", "achievements", "certifications",
     "career_skills", "career_interests", "career_education"}

\* the session has reached COMPLETE at some time: the flags are set on
\* entering COMPLETE and nowhere else, and are never reset
HasCompleted(st) == st.resume_complete \/ st.career_complete

\* this step is a chat turn of session sid
TurnOf(sid) == turns' = turns + 1 /\ request'.session_id = sid

(***************************************************************************)
(* Properties.                                                             *)
(***************************************************************************)

\* C1: on the way to RESUME_OUTPUT, AgentWorkflow prompts for the nine
\* resume slots in schema order and for each slot exactly once, whatever
\* the answers are: the resume prompts in a transcript are the first k
\* prompts of the schema, and all nine once the resume is complete.
C1_EachSlotPromptedOnceInOrder ==
    \A sid \in DOMAIN sessions :
        LET asked == PromptsAsked(sessions[sid].messages) IN
        /\ Len(asked) <= 9
        /\ \A i \in 1..Len(asked) :
              i <= 9 => asked[i].content = get_resume_prompt(RESUME_FIELDS[i])
        /\ sessions[sid].resume_complete => Len(asked) = 9

\* C2: over the calls of one session generate_pdf runs at most once and
\* get_career_suggestions at most once.
C2_CollaboratorsAtMostOnce ==
    \A sid \in SessionIds : pdfCalls[sid] <= 1 /\ careerCalls[sid] <= 1

\* C3: once a session has reached COMPLETE, no later process_message call
\* changes an attribute that is populated.
C3_CompletedRecordImmutable ==
    [][\A sid \in DOMAIN sessions :
          HasCompleted(sessions[sid]) =>
              \A a \in RecordAttrs :
                  sessions[sid][a] # None => sessions'[sid][a] = sessions[sid][a]]_vars

\* C3 witness: a completed resume session that has handled a further message
\* (it is back in INTENT) and still holds its record
C3_Witness ==
    \E sid \in DOMAIN sessions :
        /\ sessions[sid].resume_complete
        /\ sessions[sid].current_state = INTENT
        /\ AllResumeSlotsFilled(sessions[sid])

\* C4: COMPLETE is terminal: no process_message call moves a session out
\* of COMPLETE.
C4_CompleteIsTerminal ==
    [][\A sid \in DOMAIN sessions :
          sessions[sid].current_state = COMPLETE =>
              sessions'[sid].current_state = COMPLETE]_vars

\* C5: in ResumeWorkflow a 'skip'/'none' answer to the awaited slot leaves
\* the slot's attribute unpopulated and the next prompt is for a later slot
\* (or the resume is complete): the slot is not asked again.
C5_RWDeclineSatisfiesSlot ==
    [][\A sid \in DOMAIN rw_sessions :
          (/\ TurnOf(sid)
           /\ rw_sessions[sid].current_field # None
           /\ IsDecline(request'.message))
          => /\ ~ResumeSlotFilled(rw_sessions'[sid], RWAwaitedSlot(rw_sessions[sid]))
             /\ \/ rw_sessions'[sid].resume_complete
                \/ RWAwaitedSlot(rw_sessions'[sid]) > RWAwaitedSlot(rw_sessions[sid])]_vars

\* C6: in AgentWorkflow a 'skip'/'none' answer to the awaited resume field
\* moves on to another slot and leaves the awaited attribute unpopulated.
C6_DeclineIsNoValue ==
    [][\A sid \in DOMAIN sessions :
          (/\ TurnOf(sid)
           /\ AwaitedSlot(sessions[sid]) # 0
           /\ IsDecline(request'.message))
          => /\ AwaitedSlot(sessions'[sid]) # AwaitedSlot(sessions[sid])
             /\ ~ResumeSlotFilled(sessions'[sid], AwaitedSlot(sessions[sid]))]_vars

\* the marker names at most one field
OneFieldAwaited(st) ==
    \/ st.current_field = None
    \/ /\ Len(st.current_field) = 1
       /\ \E i \in 1..9 : st.current_field[1] \in {RESUME_FIELDS[i], "interests"}

\* C7: in both engines at most one field is awaited, and the awaited resume
\* slot never moves backwards: a populated slot stays populated, and after
\* any step the awaited resume slot (if any) comes after every populated
\* slot in schema order.
C7_AwaitedFieldMonotonic ==
    [][/\ \A sid \in DOMAIN sessions :
            /\ OneFieldAwaited(sessions'[sid])
            /\ \A i \in 1..9 :
                  /\ ResumeSlotFilled(sessions[sid], i) =>
                        ResumeSlotFilled(sessions'[sid], i)
                  /\ ResumeSlotFilled(sessions'[sid], i) =>
                        AwaitedSlot(sessions'[sid]) \in {0} \cup (i + 1)..9
       /\ \A sid \in DOMAIN rw_sessions :
            /\ OneFieldAwaited(rw_sessions'[sid])
            /\ \A i \in 1..9 :
                  /\ ResumeSlotFilled(rw_sessions[sid], i) =>
                        ResumeSlotFilled(rw_sessions'[sid], i)
                  /\ ResumeSlotFilled(rw_sessions'[sid], i) =>
                        RWAwaitedSlot(rw_sessions'[sid]) \in {0} \cup (i + 1)..9]_vars

\* C7 witness: a ResumeWorkflow session that has its link and awaits a
\* later slot
C7_Witness ==
    \E sid \in DOMAIN rw_sessions :
        /\ ResumeSlotFilled(rw_sessions[sid], 3)
        /\ RWAwaitedSlot(rw_sessions[sid]) = 9

\* C8: the call that leaves no resume slot unset runs output_node itself:
\* its response has state 'complete' and resume_complete true, the renderer
\* has run, and no session rests in RESUME_OUTPUT or CAREER_OUTPUT between
\* two calls (the collaborators return normally).
C8_OutputInSameCall ==
    [][\A sid \in DOMAIN sessions :
          /\ sessions'[sid].current_state \notin {RESUME_OUTPUT, CAREER_OUTPUT}
          /\ (/\ TurnOf(sid)
              /\ sessions[sid].current_state = RESUME_COLLECTION
              /\ AllResumeSlotsFilled(sessions'[sid]))
             => /\ response'.state = "complete"
                /\ response'.resume_complete
                /\ sessions'[sid].current_state = COMPLETE
                /\ sessions'[sid].resume_complete
                /\ pdfCalls'[sid] = pdfCalls[sid] + 1]_vars

\* C8 witness: the ninth answer has just been given and the response is
\* the completion
C8_Witness ==
    \E sid \in DOMAIN sessions :
        /\ turns = 11
        /\ sessions[sid].current_state = COMPLETE
        /\ response.state = "complete"
        /\ response.resume_complete
        /\ pdfCalls[sid] = 1

\* the intent a reader expects for an intent request: resume first
ExpectedIntent(message) ==
    LET c == CHOOSE x \in IntentCases : x.msg = message IN
    IF c.resume THEN RESUME ELSE IF c.career THEN CAREER ELSE UNKNOWN

\* C9: a message handled in INTENT that contains a resume keyword selects
\* the resume flow even if it also contains a career keyword, otherwise a
\* career keyword selects the career flow, otherwise the session stays in
\* INTENT with no intent.
C9_IntentClassification ==
    [][\A sid \in DOMAIN sessions :
          (TurnOf(sid) /\ sessions[sid].current_state = INTENT
                       /\ request'.message \in IntentMsgs)
          => LET expected == ExpectedIntent(request'.message)
                 st2 == sessions'[sid]
             IN  /\ expected = RESUME =>
                       /\ st2.intent = Some(RESUME)
                       /\ st2.current_state = RESUME_COLLECTION
                       /\ response'.intent = Some("resume")
                 /\ expected = CAREER =>
                       /\ st2.intent = Some(CAREER)
                       /\ st2.current_state = CAREER_COLLECTION
                       /\ response'.intent = Some("career")
                 /\ expected = UNKNOWN =>
                       /\ st2.intent = sessions[sid].intent
                       /\ st2.current_state = INTENT
                       /\ response'.intent = None
                       /\ response'.state = "intent"]_vars

\* C9 witness: a request with keywords of both sets was taken as Resume
C9_Witness ==
    /\ request.message = "My CV and some career advice"
    /\ response.intent = Some("resume")
    /\ \E sid \in DOMAIN sessions : sessions[sid].current_state = RESUME_COLLECTION

\* the skills dict a reader expects for a token list
ExpectedSkills(tokens) ==
    LET hard == SelectSeq(tokens, LAMBDA t : ~t.soft)
        soft == SelectSeq(tokens, LAMBDA t : t.soft)
    IN  [ technical |-> [i \in 1..Len(hard) |-> hard[i].trimmed],
          soft      |-> [i \in 1..Len(soft) |-> soft[i].trimmed] ]

C11_AgentSkillsClassified ==
    (engine = "agent" /\ result # None) => result[1] = ExpectedSkills(arg)

\* C12: in ResumeWorkflow an answer to the email slot is stored only if it
\* contains '@', and then lower-cased; without '@' email stays unset.
C12_EmailNeedsAt ==
    [][\A sid \in DOMAIN rw_sessions :
          (TurnOf(sid) /\ rw_sessions[sid].current_field = Some("email"))
          => IF Contains("@", request'.message)
             THEN rw_sessions'[sid].email = Some(Lower(Strip(request'.message)))
             ELSE rw_sessions'[sid].email = None]_vars

\* the text names one of the four link markers
IsLink(message) ==
    \/ Contains("http", Lower(message))
    \/ Contains("linkedin.com", Lower(message))
    \/ Contains("github.com", Lower(message))
    \/ Contains("portfolio", Lower(message))

\* the text begins with the scheme of a web address, in any letter case
HasScheme(text) ==
    StartsWith(Lower(text), "http://") \/ StartsWith(Lower(text), "https://")

\* the link as the slot should hold it
NormalizedLink(message) ==
    IF HasScheme(Strip(message)) THEN Strip(message)
    ELSE "https://" \o Strip(message)

\* C13: in ResumeWorkflow a link given for the linkedin-or-portfolio slot
\* is stored, with 'https://' prefixed when it has no scheme, in linkedin
\* if the text mentions 'linkedin' and otherwise in portfolio, never in
\* both, and the slot then counts as filled.
C13_LinkRoutedAndNormalized ==
    [][\A sid \in DOMAIN rw_sessions :
          (/\ TurnOf(sid)
           /\ rw_sessions[sid].current_field = Some("linkedin")
           /\ IsLink(request'.message))
          => /\ IF Contains("linkedin", Lower(request'.message))
                THEN /\ rw_sessions'[sid].linkedin = Some(NormalizedLink(request'.message))
                     /\ rw_sessions'[sid].portfolio = None
                ELSE /\ rw_sessions'[sid].portfolio = Some(NormalizedLink(request'.message))
                     /\ rw_sessions'[sid].linkedin = None
             /\ ResumeSlotFilled(rw_sessions'[sid], 3)
             /\ RWAwaitedSlot(rw_sessions'[sid]) > 3]_vars

\* the elements of a list
Range(xs) == {xs[i] : i \in 1..Len(xs)}

\* the place of a path in the catalog, by id and by title
PathIndex(path_id) == CHOOSE i \in 1..Len(CAREER_PATHS) : CAREER_PATHS[i].path_id = path_id
TitleIndex(title) == CHOOSE i \in 1..Len(CAREER_PATHS) : CAREER_PATHS[i].title = title

\* the score the scoring loop gives catalog path i for a profile
PathScore(i, profile) ==
    score_path(CAREER_PATHS[i], LowerStripAll(profile.skills),
               LowerStripAll(profile.interests), Lower(profile.education)).score

\* C14: for a profile with the skills python and sql and the interest data
\* (the claim's: education 'BSc Computer Science'), data_science scores
\* strictly higher than digital_marketing and is among the three
\* recommendations with python and sql in its matched_skills.
C14_DataScienceRecommended ==
    (/\ result # None
     /\ {"python", "sql"} \subseteq Range(arg.skills)
     /\ "data" \in Range(arg.interests))
    => /\ PathScore(PathIndex("data_science"), arg)
            > PathScore(PathIndex("digital_marketing"), arg)
       /\ Len(result[1].recommendations) = 3
       /\ \E i \in 1..3 :
             /\ result[1].recommendations[i].title = "Data Science & Analytics"
             /\ {"python", "sql"} \subseteq result[1].recommendations[i].matched_skills

\* C14 witness: the profile of the claim, with data_science first
C14_Witness ==
    /\ arg = Profile(<<"python", "sql">>, <<"data">>, "BSc Computer Science")
    /\ result # None
    /\ result[1].recommendations[1].title = "Data Science & Analytics"
    /\ result[1].recommendations[1].score = 7
    /\ result[1].recommendations[1].matched_skills = {"python", "sql"}

\* C15: the recommendations are exactly three catalog paths with their
\* scores, in non-increasing score order, no other path scores higher than
\* the third, and among equal scores the catalog order decides both the
\* order of the three and which paths are left out; with all scores zero
\* they are the first three catalog entries.
C15_TopThreeStable ==
    result # None =>
        LET recs == result[1].recommendations
            idx(k) == TitleIndex(recs[k].title)
        IN  /\ Len(recs) = 3
            /\ \A k \in 1..3 : recs[k].score = PathScore(idx(k), arg)
            /\ \A k \in 1..2 :
                  \/ recs[k].score > recs[k + 1].score
                  \/ recs[k].score = recs[k + 1].score /\ idx(k) < idx(k + 1)
            /\ \A j \in 1..Len(CAREER_PATHS) :
                  j \notin {idx(k) : k \in 1..3} =>
                      \/ PathScore(j, arg) < recs[3].score
                      \/ PathScore(j, arg) = recs[3].score /\ j > idx(3)
            /\ (\A j \in 1..Len(CAREER_PATHS) : PathScore(j, arg) = 0) =>
                  \A k \in 1..3 : idx(k) = k

\* C15 witness: three paths tie on one skill, two catalog entries apart
C15_Witness ==
    /\ arg.skills = <<"Communication">>
    /\ arg.interests = <<>>
    /\ result # None
    /\ [k \in 1..3 |-> result[1].recommendations[k].title]
          = <<"Digital Marketing", "Product Management",
              "Business & Technology Consulting">>
    /\ \A k \in 1..3 : result[1].recommendations[k].score = 2

\* C16: with no skills and no interests the advice returned is the three
\* generic bootstrap suggestions.
C16_GenericAdviceOnEmptyInputs ==
    (result # None /\ arg.skills = <<>> /\ arg.interests = <<>>)
    => result[1].actionable_advice = GENERIC_ADVICE

\* C17: with the database failing on every request, every chat turn of
\* AgentWorkflow still answers, and the turn that fills the last resume
\* slot reaches COMPLETE and returns the success message with the file.
C17_PersistenceFailureHarmless ==
    [][\A sid \in DOMAIN sessions :
          (supabase_fails /\ TurnOf(sid))
          => /\ ~response'.raised
             /\ response'.message # ""
             /\ (/\ sessions[sid].current_state = RESUME_COLLECTION
                 /\ AllResumeSlotsFilled(sessions'[sid]))
                => /\ sessions'[sid].current_state = COMPLETE
                   /\ response'.message = RESUME_DONE(PdfFile(sid))
                   /\ response'.pdf_file = Some(PdfFile(sid))]_vars

\* C17 witness: a full resume collection has completed while the database
\* was failing
C17_Witness ==
    /\ supabase_fails
    /\ \E sid \in DOMAIN sessions :
          /\ sessions[sid].current_state = COMPLETE
          /\ sessions[sid].resume_complete
          /\ AllResumeSlotsFilled(sessions[sid])
          /\ response.message = RESUME_DONE(PdfFile(sid))

\* C18: when the renderer fails in the call that handles RESUME_OUTPUT, the
\* session is COMPLETE with resume_complete set when the failure surfaces,
\* and it is not in RESUME_COLLECTION.
C18_TerminalBeforeRenderFailure ==
    [][\A sid \in DOMAIN sessions :
          (/\ TurnOf(sid)
           /\ response'.raised
           /\ sessions[sid].current_state \in {RESUME_COLLECTION, RESUME_OUTPUT})
          => /\ sessions'[sid].current_state = COMPLETE
             /\ sessions'[sid].resume_complete
             /\ sessions'[sid].current_state # RESUME_COLLECTION]_vars

\* C19: every process_message call returns a response message, also when
\* the rendering or scoring collaborator fails.
C19_AlwaysResponds ==
    turns > 0 => (~response.raised /\ response.message # "")

\* C20: GET /api/resume/{session_id} answers an id without a stored
\* session with status 404 and creates no session.
C20_ResumeLookupNotFound ==
    [][(turns' = turns /\ result' # None /\ result'[1].endpoint = "get_resume")
       => /\ sessions' = sessions
          /\ result'[1].session_id \notin DOMAIN sessions
                => result'[1].status = 404]_vars

ResumeAttrs ==
    {"name", "email", "linkedin", "portfolio", "summary", "education", "skills",
     "experience", "projects", "achievements", "certifications"}

\* C21: once a session's resume has been rendered, every fetch of the
\* session's resume returns, for each of the eleven attributes, the value
\* that was passed to the renderer, also after further messages.
C21_FetchReturnsRenderedValues ==
    [][\A sid \in SessionIds :
          (/\ turns' = turns
           /\ result' # None
           /\ result'[1].endpoint = "get_resume"
           /\ result'[1].session_id = sid
           /\ rendered[sid] # None)
          => /\ result'[1].status = 200
             /\ result'[1].body # None
             /\ \A a \in ResumeAttrs : result'[1].body[1][a] = rendered[sid][1][a]]_vars

\* C21 witness: the resume was rendered, a further message was answered
\* with the greeting, and the fetch returns the rendered name and link
C21_Witness ==
    \E sid \in SessionIds :
        /\ rendered[sid] # None
        /\ turns = 12
        /\ response.state = "intent"
        /\ result # None
        /\ result[1].status = 200
        /\ result[1].body[1].resume_complete
        /\ result[1].body[1].name = rendered[sid][1].name
        /\ result[1].body[1].linkedin = rendered[sid][1].linkedin
        /\ Truthy(rendered[sid][1].linkedin)

\* C22: the career-guidance endpoint answers with the suggestions for the
\* skills, interests and education of the request, whatever is stored for
\* the request's session id.
C22_GuidanceFromRequestOnly ==
    [][(turns' = turns /\ result' # None /\ result'[1].endpoint = "career_guidance")
       => result'[1].body
             = Some(get_career_suggestions(arg'.skills, arg'.interests,
                                           arg'.education, arg'.session_id))]_vars

\* the session record after the greeting turn of a brand-new session
FreshlyGreeted(sid, message) ==
    [AgentStateData(sid) EXCEPT
        !.current_state = INTENT,
        !.messages = <<Msg("user", message), Msg("assistant", GREETING)>>]

\* C23: a chat message for an id creates its session if there is none, and
\* then handles the message as for a brand-new session; the lookups leave
\* the store as it is; clearing removes exactly the session of the given id
\* and nothing when the id is unknown; no step touches another session.
C23_SessionLifecycle ==
    [][/\ (turns' = turns + 1)
          => /\ DOMAIN sessions' = DOMAIN sessions \cup {request'.session_id}
             /\ \A s \in DOMAIN sessions \ {request'.session_id} :
                   sessions'[s] = sessions[s]
             /\ request'.session_id \notin DOMAIN sessions
                   => sessions'[request'.session_id]
                         = FreshlyGreeted(request'.session_id, request'.message)
       /\ (turns' = turns /\ result' # None
              /\ result'[1].endpoint \in {"get_resume", "career_guidance"})
          => sessions' = sessions
       /\ (turns' = turns /\ result' # None /\ result'[1].endpoint = "clear_session")
          => /\ DOMAIN sessions' = DOMAIN sessions \ {result'[1].session_id}
             /\ \A s \in DOMAIN sessions' : sessions'[s] = sessions[s]
       /\ (turns' = turns) => DOMAIN sessions' \subseteq DOMAIN sessions]_vars

\* a session that was cleared after two messages has been greeted again
C23_Witness ==
    /\ turns = 3
    /\ result # None /\ result[1].endpoint = "clear_session"
    /\ result[1].session_id = "s1"
    /\ "s1" \in DOMAIN sessions
    /\ sessions["s1"] = FreshlyGreeted("s1", request.message)

\* position of a career field in CAREER_FIELDS; 0 for no field
CareerSlotIndex(field) ==
    IF field = None THEN 0
    ELSE CHOOSE i \in 1..Len(CAREER_FIELDS) : CAREER_FIELDS[i] = field[1]

\* the career fields of a session record that hold a value
CareerSlotFilled(st, i) ==
    CASE i = 1 -> TruthyList(st.career_skills)
      [] i = 2 -> TruthyList(st.career_interests)
      [] i = 3 -> Truthy(st.career_education)

\* C24: in the career flow the field asked for is the first of skills,
\* interests, education that holds no value, and the call that leaves none
\* of them empty passes the three stored values to the career matcher, sets
\* career_complete and moves to COMPLETE before it returns; no other call of
\* the flow reaches the matcher.
C24_CareerFlowOrderAndOutput ==
    [][\A sid \in SessionIds :
          (TurnOf(sid) /\ sessions'[sid].intent = Some(CAREER)
              /\ (sid \notin DOMAIN sessions \/ ~sessions[sid].career_complete))
          => LET post == sessions'[sid] IN
             IF \A i \in 1..3 : CareerSlotFilled(post, i)
             THEN /\ careerCalls'[sid] = careerCalls[sid] + 1
                  /\ matched'[sid] = Some(Profile(post.career_skills[1],
                                                  post.career_interests[1],
                                                  post.career_education[1]))
                  /\ post.career_complete /\ post.current_state = COMPLETE
                  /\ response'.career_complete /\ response'.state = "complete"
             ELSE /\ careerCalls'[sid] = careerCalls[sid]
                  /\ matched'[sid] = matched[sid]
                  /\ ~post.career_complete /\ post.current_state = CAREER_COLLECTION
                  /\ response'.state = "career_collection"
                  /\ response'.current_field = post.current_field
                  /\ post.current_field # None
                  /\ ~CareerSlotFilled(post, CareerSlotIndex(post.current_field))
                  /\ \A i \in 1..3 : i < CareerSlotIndex(post.current_field)
                                        => CareerSlotFilled(post, i)]_vars

\* C24 witness: education was asked twice and the sixth call completed the
\* flow with the stored skills
C24_Witness ==
    /\ turns = 6
    /\ "s1" \in DOMAIN sessions
    /\ sessions["s1"].career_complete /\ sessions["s1"].current_state = COMPLETE
    /\ careerCalls["s1"] = 1
    /\ matched["s1"] = Some(Profile(<<"python", "sql">>, <<"">>, "career"))

FirstUnsetResumeSlot(st) ==
    IF AllResumeSlotsFilled(st) THEN 0
    ELSE CHOOSE i \in 1..9 :
            /\ ~ResumeSlotFilled(st, i)
            /\ \A j \in 1..(i - 1) : ResumeSlotFilled(st, j)

\* the first career slot without a value, 0 if there is none
FirstUnsetCareerSlot(st) ==
    IF \A i \in 1..3 : CareerSlotFilled(st, i) THEN 0
    ELSE CHOOSE i \in 1..3 :
            /\ ~CareerSlotFilled(st, i)
            /\ \A j \in 1..(i - 1) : CareerSlotFilled(st, j)

\* the marker names the first unset slot of the schema
MarksFirstUnset(st, schema, first) ==
    /\ first # 0
    /\ st.current_field = Some(schema[first])

\* C26: after every process_message call current_field names the first
\* unset slot of the schema while the session collects (AgentWorkflow in
\* RESUME_COLLECTION or CAREER_COLLECTION, ResumeWorkflow for a resume
\* session that is not complete), and is None otherwise, whether or not the
\* call stored the answer.
C26_MarkerIsFirstUnsetSlot ==
    [][/\ \A sid \in SessionIds :
            (TurnOf(sid) /\ engine = "agent")
            => LET post == sessions'[sid] IN
               CASE post.current_state = RESUME_COLLECTION ->
                       MarksFirstUnset(post, RESUME_FIELDS, FirstUnsetResumeSlot(post))
                 [] post.current_state = CAREER_COLLECTION ->
                       MarksFirstUnset(post, CAREER_FIELDS, FirstUnsetCareerSlot(post))
                 [] OTHER -> post.current_field = None
       /\ \A sid \in SessionIds :
            (TurnOf(sid) /\ engine = "resume")
            => LET post == rw_sessions'[sid] IN
               IF post.resume_complete \/ post.intent = Some("career_guidance")
               THEN post.current_field = None
               ELSE MarksFirstUnset(post, RESUME_FIELDS, FirstUnsetResumeSlot(post))]_vars

\* C26 witness: a ResumeWorkflow session went through an answer that was
\* not stored, completed on its eleventh call, and awaits nothing
C26_Witness ==
    /\ engine = "resume"
    /\ turns = 11
    /\ "s1" \in DOMAIN rw_sessions
    /\ rw_sessions["s1"].resume_complete
    /\ rw_sessions["s1"].current_field = None
    /\ Len(rw_sessions["s1"].messages) = 22

\* the transcript of a session, empty when the session is not stored
Transcript(sid) == IF sid \in DOMAIN sessions THEN sessions[sid].messages ELSE <<>>

\* C27: an AgentWorkflow call that answers with the prompt for a field
\* extends the transcript by the user's message followed by that prompt.
C27_TranscriptHoldsUserMessages ==
    [][\A sid \in SessionIds :
          (/\ TurnOf(sid) /\ engine = "agent"
           /\ response'.state \in {"resume_collection", "career_collection"})
          => sessions'[sid].messages
                = Transcript(sid) \o <<Msg("user", request'.message),
                                       Msg("assistant", response'.message)>>]_vars

\* the session after two process_message calls made one after the other
Sequential(base, first, second) ==
    process_message(process_message(base, first, None, TRUE).st, second, None, TRUE).st

\* both requests of the round have been answered
BothAnswered == \A c \in CallIds : inflight.pc[c] = "done"

\* call c has begun and not returned
InProgress(c) == inflight.pc[c] \notin {"idle", "process_message", "done"}

CallNames(calls) == [i \in 1..Len(calls) |-> calls[i].name]

\* the task reached its persistence step with a service
Persisting == result # None /\ ~result[1].raised /\ arg.service # "none"

\* C29: once run_ai_resume_workflow persists, neither a failing
\* save_resume_results nor a failing PDF upload keeps the later
\* save_resume_file calls from being made: the calls are save_resume_results,
\* then one save_resume_file for each artifact whose path is kept.
C29_PersistenceCallsIsolated ==
    Persisting
    => CallNames(result[1].calls)
          = <<"save_resume_results">>
            \o (IF result[1].pdf_path # ""
                THEN <<"save_resume_file:" \o result[1].pdf_path>> ELSE <<>>)
            \o (IF result[1].docx_path # ""
                THEN <<"save_resume_file:" \o result[1].docx_path>> ELSE <<>>)

\* C29 witness: both the results request and the PDF upload failed and the
\* DOCX was still uploaded
C29_Witness ==
    /\ Persisting
    /\ arg.service = "enabled" /\ arg.results_fail /\ arg.pdf_upload_fails
    /\ Len(result[1].calls) = 3
    /\ ~result[1].calls[1].saved /\ result[1].calls[2].requested
    /\ ~result[1].calls[2].saved /\ result[1].calls[3].saved

\* C30: run_ai_resume_workflow ends without raising whatever fails in
\* rendering or persistence; save_resume_results is called exactly once
\* when a service is supplied; an artifact whose generator raised is not
\* uploaded; the DOCX is generated whether or not the PDF was.
C30_WorkflowRunsToTheEnd ==
    result # None
    => /\ ~result[1].raised
       /\ arg.service # "none"
             => Len(SelectSeq(CallNames(result[1].calls),
                              LAMBDA n : n = "save_resume_results")) = 1
       /\ arg.docx = "raises"
             => \A i \in 1..Len(result[1].calls) :
                   result[1].calls[i].name
                      # "save_resume_file:generated_resumes/s1_resume.docx"

CareerAttrs == {"career_skills", "career_interests", "career_education"}

\* C31: a message handled in RESUME_COLLECTION or CAREER_COLLECTION keeps
\* the session's intent, stays in its flow (collection, output or COMPLETE
\* of that flow) and leaves every attribute and the completion flag of the
\* other flow as they were.
C31_NoFlowSwitchWhileCollecting ==
    [][\A sid \in DOMAIN sessions :
          (TurnOf(sid) /\ sessions[sid].current_state \in {RESUME_COLLECTION,
                                                           CAREER_COLLECTION})
          => /\ sessions'[sid].intent = sessions[sid].intent
             /\ sessions[sid].current_state = RESUME_COLLECTION
                   => /\ sessions'[sid].current_state
                            \in {RESUME_COLLECTION, RESUME_OUTPUT, COMPLETE}
                      /\ sessions[sid].intent = Some(RESUME)
                      /\ sessions'[sid].career_complete = sessions[sid].career_complete
                      /\ \A a \in CareerAttrs : sessions'[sid][a] = sessions[sid][a]
             /\ sessions[sid].current_state = CAREER_COLLECTION
                   => /\ sessions'[sid].current_state
                            \in {CAREER_COLLECTION, CAREER_OUTPUT, COMPLETE}
                      /\ sessions[sid].intent = Some(CAREER)
                      /\ sessions'[sid].resume_complete = sessions[sid].resume_complete
                      /\ \A a \in ResumeAttrs : sessions'[sid][a] = sessions[sid][a]]_vars

\* C31 witness: after a completed career flow the session collects a resume
\* and has stored a message full of career keywords as the name
C31_Witness ==
    \E sid \in DOMAIN sessions :
        /\ sessions[sid].current_state = RESUME_COLLECTION
        /\ sessions[sid].intent = Some(RESUME)
        /\ sessions[sid].career_complete
        /\ sessions[sid].name = Some("what career path should I take")
        /\ sessions[sid].current_field = Some("email")

\* C32: in both engines a session with resume_complete has all nine resume
\* slots populated; an AgentWorkflow session with career_complete has the
\* three career fields populated, and one in COMPLETE has a completion flag.
C32_CompleteMeansPopulated ==
    /\ \A sid \in DOMAIN sessions :
          /\ sessions[sid].resume_complete => AllResumeSlotsFilled(sessions[sid])
          /\ sessions[sid].career_complete
                => \A i \in 1..3 : CareerSlotFilled(sessions[sid], i)
          /\ sessions[sid].current_state = COMPLETE => HasCompleted(sessions[sid])
    /\ \A sid \in DOMAIN rw_sessions :
          rw_sessions[sid].resume_complete => AllResumeSlotsFilled(rw_sessions[sid])

\* C32 witness: an AgentWorkflow session that completed its resume on the
\* eleventh call
C32_Witness ==
    \E sid \in DOMAIN sessions :
        /\ sessions[sid].resume_complete /\ ~sessions[sid].career_complete
        /\ sessions[sid].current_state = COMPLETE
        /\ TruthyList(sessions[sid].achievements)
        /\ Len(sessions[sid].messages) = 13

\* C33: no AgentWorkflow call sets portfolio or certifications; the answer
\* to the link slot is stored as linkedin and the answer to the achievements
\* slot as the one entry of achievements.
C33_OrSlotsUseFirstAttribute ==
    [][\A sid \in SessionIds :
          (TurnOf(sid) /\ engine = "agent")
          => /\ sessions'[sid].portfolio = None
             /\ sessions'[sid].certifications = None
             /\ (sid \in DOMAIN sessions /\ AwaitedSlot(sessions[sid]) = 3)
                   => sessions'[sid].linkedin = Some(Strip(request'.message))
             /\ (sid \in DOMAIN sessions /\ AwaitedSlot(sessions[sid]) = 9)
                   => sessions'[sid].achievements = Some(<<Strip(request'.message)>>)]_vars

\* C33 witness: a completed resume whose link and achievements answers are
\* held by linkedin and achievements
C33_Witness ==
    \E sid \in DOMAIN sessions :
        /\ sessions[sid].resume_complete
        /\ sessions[sid].linkedin = Some("what career path should I take")
        /\ sessions[sid].achievements = Some(<<"I want a resume">>)
        /\ sessions[sid].portfolio = None /\ sessions[sid].certifications = None

\* C34: the response of an AgentWorkflow call reports the session's stored
\* completion flags and the name of its current state.
C34_ResponseReportsStoredFlags ==
    [][\A sid \in SessionIds :
          (TurnOf(sid) /\ engine = "agent" /\ ~response'.raised)
          => /\ response'.resume_complete = sessions'[sid].resume_complete
             /\ response'.career_complete = sessions'[sid].career_complete
             /\ response'.state = sessions'[sid].current_state]_vars

\* C35: in every response of ResumeWorkflow.process_message the
\* missing_fields list is empty exactly when resume_complete is true.
C35_MissingEmptyIffComplete ==
    [][\A sid \in SessionIds :
          (TurnOf(sid) /\ engine = "resume")
          => (rw_response'.missing_fields = <<>>) = rw_response'.resume_complete]_vars

(***************************************************************************)
(* ResumeWorkflow sessions opened with or without the career-guidance      *)
(* hint and driven to completion.                                          *)
(***************************************************************************)
MaxHintedTurns == 11

RWChatHinted ==
    /\ turns < MaxHintedTurns
    /\ \E sid \in SessionIds, message \in RWFlowMsgs, intent \in RWIntentHints :
          RWProcessMessage(sid, message, intent)

InitHinted == Init /\ engine = "resume"

SpecHinted == InitHinted /\ [][RWChatHinted]_vars

\* C35 (amended): in every response of ResumeWorkflow.process_message for a
\* session whose intent is not career guidance, the missing_fields list is
\* empty exactly when resume_complete is true; the career-guidance redirect
\* returns an empty list with resume_complete false.
C35_MissingEmptyIffCompleteForResume ==
    [][\A sid \in SessionIds :
          (TurnOf(sid) /\ engine = "resume")
          => IF rw_sessions'[sid].intent = Some("career_guidance")
             THEN rw_response'.missing_fields = <<>> /\ ~rw_response'.resume_complete
             ELSE (rw_response'.missing_fields = <<>>) = rw_response'.resume_complete]_vars

\* C35 witness: a resume session completed with nothing missing, on a call
\* that carried the career-guidance hint
C35_Witness ==
    /\ engine = "resume"
    /\ "s1" \in DOMAIN rw_sessions
    /\ rw_sessions["s1"].intent = Some("resume")
    /\ request.intent = Some("career_guidance")
    /\ rw_response.resume_complete
    /\ rw_response.missing_fields = <<>>
    /\ TruthyList(rw_sessions["s1"].achievements)

\* the lists that collect structured entries
EntryLists == {"education", "experience", "projects"}

\* number of entries of an Optional list
Entries(opt) == IF opt = None THEN 0 ELSE Len(opt[1])

\* C36: in both engines the education, experience and projects lists hold at
\* most one entry, and a call never changes a list that already has one.
C36_AtMostOneEntry ==
    [][/\ \A sid \in SessionIds :
            (TurnOf(sid) /\ engine = "agent")
            => \A a \in EntryLists :
                  /\ Entries(sessions'[sid][a]) <= 1
                  /\ (sid \in DOMAIN sessions /\ Entries(sessions[sid][a]) = 1)
                        => sessions'[sid][a] = sessions[sid][a]
       /\ \A sid \in SessionIds :
            (TurnOf(sid) /\ engine = "resume")
            => \A a \in EntryLists :
                  /\ Entries(rw_sessions'[sid][a]) <= 1
                  /\ (sid \in DOMAIN rw_sessions /\ Entries(rw_sessions[sid][a]) = 1)
                        => rw_sessions'[sid][a] = rw_sessions[sid][a]]_vars

\* C36 witness: a completed ResumeWorkflow session, one entry in each list,
\* that received a further message
C36_Witness ==
    /\ engine = "resume"
    /\ turns = 12
    /\ "s1" \in DOMAIN rw_sessions
    /\ rw_sessions["s1"].resume_complete
    /\ \A a \in EntryLists : Entries(rw_sessions["s1"][a]) = 1

\* intent hints a chat request may carry
HintValues == {None, Some("resume"), Some("career"), Some("career_guidance")}

\* C37: the first AgentWorkflow call of a new session returns the greeting
\* and leaves the session in INTENT with no intent and no field set, and
\* every call has the outcome it would have with any other intent hint.
C37_HintAndFirstMessageIgnored ==
    [][\A sid \in SessionIds :
          (TurnOf(sid) /\ engine = "agent")
          => /\ sid \notin DOMAIN sessions
                   => /\ response'.message = GREETING
                      /\ response'.intent = None
                      /\ sessions'[sid].current_state = INTENT
                      /\ sessions'[sid].intent = None
                      /\ sessions'[sid].current_field = None
                      /\ \A a \in ResumeAttrs \cup CareerAttrs : sessions'[sid][a] = None
             /\ \A h \in HintValues :
                   /\ sessions'[sid] = process_message(get_session(sid), request'.message, h, TRUE).st
                   /\ response' = process_message(get_session(sid), request'.message, h, TRUE).reply]_vars

\* C37 witness: a session opened with the resume hint and a resume request
\* was greeted, and its next call chose the career flow against the hint
C37_Witness ==
    /\ engine = "agent"
    /\ turns = 2
    /\ "s1" \in DOMAIN sessions
    /\ sessions["s1"].messages[1] = Msg("user", "I want a resume")
    /\ sessions["s1"].messages[2] = Msg("assistant", GREETING)
    /\ request.intent = Some("resume")
    /\ sessions["s1"].intent = Some(CAREER)
    /\ sessions["s1"].current_state = CAREER_COLLECTION

\* C38: a ResumeWorkflow call whose answer is neither blank nor skip/none
\* populates the awaited slot, and the slot then awaited (if any) is a later
\* one.
C38_RealAnswerFillsAwaitedSlot ==
    [][\A sid \in SessionIds :
          (/\ TurnOf(sid) /\ engine = "resume"
           /\ sid \in DOMAIN rw_sessions
           /\ RWAwaitedSlot(rw_sessions[sid]) # 0
           /\ Strip(request'.message) # ""
           /\ ~IsDecline(request'.message))
          => /\ ResumeSlotFilled(rw_sessions'[sid], RWAwaitedSlot(rw_sessions[sid]))
             /\ \/ RWAwaitedSlot(rw_sessions'[sid]) = 0
                \/ RWAwaitedSlot(rw_sessions'[sid]) > RWAwaitedSlot(rw_sessions[sid])]_vars

\* educations a caller may pass: none, and ones with technical keywords
EducationVariants ==
    {"", "BSc Computer Science", "B.Tech Information Technology", "MA History"}

\* C39: the response of get_career_suggestions (scores, ranking, advice) is
\* the one the same skills and interests give with any other education.
C39_EducationHasNoInfluence ==
    result # None
    => \A ed \in EducationVariants :
          get_career_suggestions(arg.skills, arg.interests, ed, "s1") = result[1]

\* C39 witness: suggestions were computed for two skills, an interest and an
\* education that names technical keywords
C39_Witness ==
    /\ result # None
    /\ arg.education = "BSc Computer Science"
    /\ AnyIn(TECH_TERMS, Lower(arg.education))
    /\ arg.skills = <<"python", "sql">>
    /\ arg.interests = <<"data">>
    /\ result[1] = get_career_suggestions(arg.skills, arg.interests, arg.education, "s1")

\* C40: an AgentWorkflow call that answers an awaited resume slot with a
\* non-blank message fills that slot; after slots 1..8 the session awaits the
\* next slot, and after slot 9 it is COMPLETE with resume_complete set and
\* reported.
C40_NonBlankAnswerAdvances ==
    [][\A sid \in SessionIds :
          (/\ TurnOf(sid) /\ engine = "agent"
           /\ sid \in DOMAIN sessions
           /\ AwaitedSlot(sessions[sid]) # 0
           /\ Strip(request'.message) # ""
           /\ ~response'.raised)
          => /\ ResumeSlotFilled(sessions'[sid], AwaitedSlot(sessions[sid]))
             /\ IF AwaitedSlot(sessions[sid]) < 9
                THEN /\ sessions'[sid].current_state = RESUME_COLLECTION
                     /\ AwaitedSlot(sessions'[sid]) = AwaitedSlot(sessions[sid]) + 1
                     /\ ~sessions'[sid].resume_complete
                ELSE /\ sessions'[sid].current_state = COMPLETE
                     /\ sessions'[sid].resume_complete
                     /\ response'.resume_complete
                     /\ pdfCalls'[sid] = pdfCalls[sid] + 1]_vars

\* C40 witness: the ninth answer in a row completed the resume on the
\* eleventh call of the session
C40_Witness ==
    /\ engine = "agent"
    /\ turns = 11
    /\ "s1" \in DOMAIN sessions
    /\ sessions["s1"].current_state = COMPLETE
    /\ sessions["s1"].resume_complete
    /\ response.resume_complete
    /\ pdfCalls["s1"] = 1
    /\ sessions["s1"].name = Some("I want a resume")

====
